---------------------------- MODULE Spec2Model ----------------------------
(***************************************************************************)
(* Semantic analyzer of the simit front-end (src/frontend/type_checker.cpp) *)
(* as a state machine.  The checker walks the HIR top-down; expression      *)
(* inference and type lowering are pure in the program context and are      *)
(* operators here; declarations and statements are actions on the context.  *)
(***************************************************************************)
EXTENDS Integers, Sequences, FiniteSets, TLC

VARIABLES
  symtab,     \* ctx symbol stack: sequence of scopes, last = innermost
  elems,      \* ctx element registry: name -> element type
  funcs,      \* ctx function registry: name -> function signature
  errors,     \* the diagnostic list (std::vector<ParseError> *errors)
  aborted,    \* an internal assertion / exception escaped the checker
  frames,     \* open FuncDecl / While / If / For visits, last = innermost
  node,       \* the HIR node whose visit completed last (or is to be visited)
  retType,    \* the attribute published by that visit (annotation side-map)
  pc,         \* position of the walk
  steps,      \* number of HIR nodes visited so far
  checkWritable,      \* the node marked as a write target (empty: NoNode)
  skipCheckDeclared   \* a variable visited now need not be declared

vars == <<symtab, elems, funcs, errors, aborted, frames, node, retType, pc, steps,
          checkWritable, skipCheckDeclared>>

---------------------------------------------------------------------------
(* Bounds of the exploration *)

MaxSteps == 2
MaxDepth == 3
MaxIndices == 3      \* indices of a tensor read, index sets of a tensor type
MaxLitLen == 2       \* values in a row of a dense literal, rows of a literal

---------------------------------------------------------------------------
(* IR types *)

Undefined == [kind |-> "undefined"]

defined(t) == t.kind # "undefined"

TensorType(comp, dims, col) ==
  [kind |-> "tensor", comp |-> comp, dims |-> dims, col |-> col]

IrInt == TensorType("int", <<>>, FALSE)
IrFloat == TensorType("float", <<>>, FALSE)
IrBoolean == TensorType("bool", <<>>, FALSE)

ElementTypeMake(name, fields) ==
  [kind |-> "element", name |-> name, fields |-> fields]

SetTypeMake(elementType, endpoints) ==
  [kind |-> "set", elementType |-> elementType, endpointSets |-> endpoints]

TupleTypeMake(elementType, len) ==
  [kind |-> "tuple", elementType |-> elementType, size |-> len]

Var(name, type) == [name |-> name, type |-> type]

RangeIS(n) == [kind |-> "range", n |-> n]
SetIS(setVar) == [kind |-> "set", set |-> setVar]
DynamicIS == [kind |-> "dynamic"]

isTensor(t) == t.kind = "tensor"
isSet(t) == t.kind = "set"
isElement(t) == t.kind = "element"
isTuple(t) == t.kind = "tuple"
order(t) == Len(t.dims)
isScalar(t) == isTensor(t) /\ order(t) = 0
isInt(t) == isScalar(t) /\ t.comp = "int"
isBoolean(t) == isScalar(t) /\ t.comp = "bool"

\* outer index set of every dimension
getOuterDimensions(t) == [i \in 1..Len(t.dims) |-> t.dims[i][1]]

\* the block of a tensor: every dimension without its outer index set
getBlockType(t) ==
  IF order(t) = 0 \/ \A i \in 1..Len(t.dims) : Len(t.dims[i]) = 1
  THEN TensorType(t.comp, <<>>, FALSE)
  ELSE TensorType(t.comp, [i \in 1..Len(t.dims) |-> Tail(t.dims[i])], t.col)

\* TensorType::operator== : component type and dimensions
tensorEq(l, r) == l.comp = r.comp /\ l.dims = r.dims

hasField(elemType, f) == \E i \in 1..Len(elemType.fields) : elemType.fields[i].name = f

field(elemType, f) ==
  elemType.fields[CHOOSE i \in 1..Len(elemType.fields) : elemType.fields[i].name = f]

\* type of a set field: tensor over the set whose blocks are the field's type
getFieldType(setVar, f) ==
  LET ft == field(setVar.type.elementType, f).type
  IN  IF order(ft) = 0
      THEN TensorType(ft.comp, << <<SetIS(setVar)>> >>, TRUE)
      ELSE TensorType(ft.comp,
                      [i \in 1..Len(ft.dims) |->
                         IF i = 1 THEN <<SetIS(setVar)>> \o ft.dims[i] ELSE ft.dims[i]],
                      TRUE)

---------------------------------------------------------------------------
(* Symbol table and program context *)

Read == "Read"
ReadWrite == "ReadWrite"

Symbol(name, type, access) == [name |-> name, type |-> type, access |-> access]

isReadable(sym) == sym.access \in {"Read", "ReadWrite"}
isWritable(sym) == sym.access \in {"Write", "ReadWrite"}

hasSymbolLocal(st, name) == name \in DOMAIN st[Len(st)]

hasSymbol(st, name) == \E i \in 1..Len(st) : name \in DOMAIN st[i]

getSymbol(st, name) ==
  LET i == CHOOSE j \in 1..Len(st) :
             /\ name \in DOMAIN st[j]
             /\ \A k \in (j+1)..Len(st) : name \notin DOMAIN st[k]
  IN  st[i][name]

addSymbol(st, name, type, access) ==
  LET top == st[Len(st)]
      new == [n \in (DOMAIN top) \cup {name} |->
                IF n = name THEN Symbol(name, type, access) ELSE top[n]]
  IN  [st EXCEPT ![Len(st)] = new]

EmptyScope == [n \in {} |-> Undefined]

scope(st) == Append(st, EmptyScope)

unscope(st) == SubSeq(st, 1, Len(st) - 1)

containsElementType(es, name) == name \in DOMAIN es
containsFunction(fs, name) == name \in DOMAIN fs

addToRegistry(reg, name, val) ==
  [n \in (DOMAIN reg) \cup {name} |-> IF n = name THEN val ELSE reg[n]]

Func(name, args, results, kind) ==
  [name |-> name, arguments |-> args, results |-> results, kind |-> kind]

\* what an expression visit reads of the checker
Ctx(st, es, fs, cw, skip, nd) ==
  [symtab |-> st, elems |-> es, funcs |-> fs, checkWritable |-> cw,
   skipCheckDeclared |-> skip, ub |-> nd]

NoNode == <<>>

---------------------------------------------------------------------------
(* Diagnostics *)

Err(msg, ident) == [msg |-> msg, ident |-> ident]

reportError(msg) == <<Err(msg, "")>>

reportUndeclared(type, ident) == <<Err("undeclared " \o type, ident)>>

reportMultipleDefs(type, ident) == <<Err("multiple definitions of " \o type, ident)>>

---------------------------------------------------------------------------
(* Lowering of type syntax (getIRType / getIndexSet / getExpr / getVar)     *)
(* Every lowering yields the attribute and the diagnostics it reported.     *)

Lowered(type, errs) == [type |-> type, errs |-> errs]

visitRangeIndexSet(set) == [ok |-> TRUE, is |-> RangeIS(set.range), errs |-> <<>>]

visitSetIndexSet(set, C) ==
  IF ~hasSymbol(C.symtab, set.setName)
  THEN [ok |-> FALSE, is |-> DynamicIS, errs |-> reportUndeclared("set", set.setName)]
  ELSE LET setExpr == getSymbol(C.symtab, set.setName)
       IN  IF ~isSet(setExpr.type)
           THEN [ok |-> FALSE, is |-> DynamicIS,
                 errs |-> reportError("index set must be a set, a range, or dynamic (*)")]
           ELSE [ok |-> TRUE, is |-> SetIS(Var(setExpr.name, setExpr.type)), errs |-> <<>>]

visitDynamicIndexSet(set) == [ok |-> TRUE, is |-> DynamicIS, errs |-> <<>>]

getIndexSet(is, C) ==
  CASE is.k = "RangeIndexSet" -> visitRangeIndexSet(is)
    [] is.k = "SetIndexSet" -> visitSetIndexSet(is, C)
    [] is.k = "DynamicIndexSet" -> visitDynamicIndexSet(is)

visitElementType(type, C) ==
  IF ~containsElementType(C.elems, type.ident)
  THEN Lowered(Undefined, reportUndeclared("element type", type.ident))
  ELSE Lowered(C.elems[type.ident], <<>>)

\* visit(Endpoint): the symbol's expression, undefined when undeclared
visitEndpoint(end, C) ==
  IF ~hasSymbol(C.symtab, end)
  THEN [defined |-> FALSE, expr |-> Var(end, Undefined),
        errs |-> reportUndeclared("set", end)]
  ELSE LET sym == getSymbol(C.symtab, end)
       IN  [defined |-> TRUE, expr |-> Var(sym.name, sym.type), errs |-> <<>>]

RECURSIVE endpointLoop(_, _, _)
\* the loop of visit(SetType) over the endpoints from position i on
endpointLoop(ends, C, acc) ==
  IF ends = <<>> THEN acc
  ELSE LET endpoint == visitEndpoint(Head(ends), C)
           errs1 == acc.errs \o endpoint.errs
       IN  IF ~endpoint.defined
           THEN endpointLoop(Tail(ends), C,
                  [typeChecked |-> FALSE, endpoints |-> acc.endpoints, errs |-> errs1])
           ELSE IF ~isSet(endpoint.expr.type)
           THEN endpointLoop(Tail(ends), C,
                  [typeChecked |-> FALSE, endpoints |-> acc.endpoints,
                   errs |-> errs1 \o reportError("expected endpoint to be of set type")])
           ELSE endpointLoop(Tail(ends), C,
                  [typeChecked |-> acc.typeChecked,
                   endpoints |-> Append(acc.endpoints, endpoint.expr), errs |-> errs1])

visitSetType(type, C) ==
  LET elementType == visitElementType(type.element, C)
      loop == endpointLoop(type.endpoints, C,
                [typeChecked |-> defined(elementType.type), endpoints |-> <<>>,
                 errs |-> elementType.errs])
  IN  IF ~loop.typeChecked
      THEN Lowered(Undefined, loop.errs)
      ELSE Lowered(SetTypeMake(elementType.type, loop.endpoints), loop.errs)

visitTupleType(type, C) ==
  LET elementType == visitElementType(type.element, C)
  IN  IF type.length < 1
      THEN Lowered(Undefined, elementType.errs \o
             reportError("tuple must have length greater than or equal to one"))
      ELSE IF ~defined(elementType.type)
      THEN Lowered(Undefined, elementType.errs)
      ELSE Lowered(TupleTypeMake(elementType.type, type.length), elementType.errs)

visitScalarType(type) ==
  CASE type.type = "int" -> Lowered(IrInt, <<>>)
    [] type.type = "float" -> Lowered(IrFloat, <<>>)
    [] type.type = "bool" -> Lowered(IrBoolean, <<>>)

RECURSIVE indexSetLoop(_, _, _)
\* the loop of visit(NDTensorType) over the index sets
indexSetLoop(iss, C, acc) ==
  IF iss = <<>> THEN acc
  ELSE LET indexSet == getIndexSet(Head(iss), C)
       IN  IF ~indexSet.ok
           THEN indexSetLoop(Tail(iss), C,
                  [typeChecked |-> FALSE, indexSets |-> acc.indexSets,
                   errs |-> acc.errs \o indexSet.errs])
           ELSE indexSetLoop(Tail(iss), C,
                  [typeChecked |-> acc.typeChecked,
                   indexSets |-> Append(acc.indexSets, indexSet.is),
                   errs |-> acc.errs \o indexSet.errs])

\* lines 184-199: the column-vector marker of a tensor type
columnVectorType(ndTensorType, errs) ==
  IF Len(ndTensorType.dims) # 1
  THEN Lowered(Undefined, errs \o
         reportError("column vector type must strictly contain one dimension"))
  ELSE Lowered(TensorType(ndTensorType.comp, ndTensorType.dims, TRUE), errs)

\* variant of blockDimensions that puts the block's index sets first
blockDimensionsInnerFirst(blockType, indexSets) ==
  IF order(blockType) = 0
  THEN [i \in 1..Len(indexSets) |-> <<indexSets[i]>>]
  ELSE [i \in 1..Len(indexSets) |-> blockType.dims[i] \o <<indexSets[i]>>]

\* lines 151-182: dimensions of a tensor of blocks
blockDimensions(blockType, indexSets) ==
  IF order(blockType) = 0
  THEN [i \in 1..Len(indexSets) |-> <<indexSets[i]>>]
  ELSE [i \in 1..Len(indexSets) |-> <<indexSets[i]>> \o blockType.dims[i]]

RECURSIVE visitNDTensorType(_, _)
visitNDTensorType(type, C) ==
  LET blockType == IF type.blockType.k = "ScalarType"
                   THEN visitScalarType(type.blockType)
                   ELSE visitNDTensorType(type.blockType, C)
      loop == indexSetLoop(type.indexSets, C,
                [typeChecked |-> defined(blockType.type), indexSets |-> <<>>,
                 errs |-> blockType.errs])
  IN  IF ~loop.typeChecked THEN Lowered(Undefined, loop.errs)
      ELSE IF loop.indexSets # <<>> /\ order(blockType.type) # 0
              /\ order(blockType.type) # Len(loop.indexSets)
      THEN Lowered(Undefined, loop.errs \o reportError(
             "blocked tensor type must contain same number of dimensions as its blocks"))
      ELSE LET ndTensorType ==
                 IF loop.indexSets = <<>> THEN blockType.type
                 ELSE TensorType(blockType.type.comp,
                                 blockDimensions(blockType.type, loop.indexSets), FALSE)
           IN  IF type.columnVector
               THEN columnVectorType(ndTensorType, loop.errs)
               ELSE Lowered(ndTensorType, loop.errs)

getIRType(type, C) ==
  CASE type.k = "ScalarType" -> visitScalarType(type)
    [] type.k = "NDTensorType" -> visitNDTensorType(type, C)
    [] type.k = "ElementType" -> visitElementType(type, C)
    [] type.k = "SetType" -> visitSetType(type, C)
    [] type.k = "TupleType" -> visitTupleType(type, C)

\* visit(IdentDecl): a variable of the lowered type (undefined when it failed)
visitIdentDecl(decl, C) ==
  LET type == getIRType(decl.type, C)
  IN  [var |-> Var(decl.name, type.type), errs |-> type.errs]


---------------------------------------------------------------------------
(* Expression inference.  A visit yields the published Ptr<Expr::Type>      *)
(* (def = FALSE is the null pointer), the diagnostics it reported in order, *)
(* and whether the checker was left by an internal assertion ("assert") or  *)
(* by dereferencing a null pointer ("nullderef").                           *)

Res(def, v, errs) == [def |-> def, v |-> v, errs |-> errs, abort |-> "no"]
Null(errs) == Res(FALSE, <<>>, errs)
One(t, errs) == Res(TRUE, <<t>>, errs)
Abort(how, errs) == [def |-> FALSE, v |-> <<>>, errs |-> errs, abort |-> how]

\* outcomes of undefined behaviour: dereferencing the null Ptr<Expr::Type> at
\* line 1065, reading past the end of initDims at line 1325
UBOutcomes == {"crash", "mismatch", "match"}

compareTypes(l, r) ==
  IF isTensor(l) /\ isTensor(r) THEN tensorEq(l, r) /\ l.col = r.col ELSE l = r

\* "operand is not a single numeric tensor" (lines 632-633 and alike)
notNumericTensor(t) ==
  t.def /\ (Len(t.v) # 1 \/ ~isTensor(t.v[1]) \/ t.v[1].comp = "bool")

notSingleBoolean(t) == t.def /\ (Len(t.v) # 1 \/ ~isBoolean(t.v[1]))

visitVarExpr(expr, C, p) ==
  IF ~hasSymbol(C.symtab, expr.ident)
  THEN Null(IF ~C.skipCheckDeclared
            THEN reportUndeclared("variable or constant", expr.ident) ELSE <<>>)
  ELSE LET varSym == getSymbol(C.symtab, expr.ident)
           perm == IF p = C.checkWritable /\ ~isWritable(varSym)
                   THEN <<Err("is not writable", expr.ident)>>
                   ELSE IF p # C.checkWritable /\ ~isReadable(varSym)
                   THEN <<Err("is not readable", expr.ident)>>
                   ELSE <<>>
       IN  IF ~defined(varSym.type) THEN Null(perm) ELSE One(varSym.type, perm)

visitIntLiteral(lit) == One(IrInt, <<>>)
visitFloatLiteral(lit) == One(IrFloat, <<>>)
visitBoolLiteral(lit) == One(IrBoolean, <<>>)

(* Dense tensor literals *)

DenseTensorType(type, dimSizes, exc) == [type |-> type, dimSizes |-> dimSizes, exc |-> exc]

addIntValues(tt, len) ==
  IF tt.type = "FLOAT" THEN [tt EXCEPT !.exc = "TypeError"]
  ELSE [tt EXCEPT !.type = "INT", !.dimSizes[Len(tt.dimSizes)] = @ + len]

addFloatValues(tt, len) ==
  IF tt.type = "INT" THEN [tt EXCEPT !.exc = "TypeError"]
  ELSE [tt EXCEPT !.type = "FLOAT", !.dimSizes[Len(tt.dimSizes)] = @ + len]

addDimension(tt) == [tt EXCEPT !.dimSizes = Append(@, 1)]

\* variant of merge that does not compare the shapes
mergeNoDimCheck(tt, other) ==
  IF tt.type # other.type THEN [tt EXCEPT !.exc = "TypeError"]
  ELSE [tt EXCEPT !.dimSizes[Len(tt.dimSizes)] = @ + 1]

merge(tt, other) ==
  IF tt.type # other.type THEN [tt EXCEPT !.exc = "TypeError"]
  ELSE IF Len(tt.dimSizes) - 1 # Len(other.dimSizes) THEN [tt EXCEPT !.exc = "DimError"]
  ELSE IF \E i \in 1..(Len(tt.dimSizes) - 1) : tt.dimSizes[i] # other.dimSizes[i]
  THEN [tt EXCEPT !.exc = "DimError"]
  ELSE [tt EXCEPT !.dimSizes[Len(tt.dimSizes)] = @ + 1]

RECURSIVE getDenseTensorType(_)
RECURSIVE mergeLoop(_, _)
\* the loop of lines 1239-1242; an exception thrown leaves it at once
mergeLoop(tt, rest) ==
  IF tt.exc # "none" \/ rest = <<>> THEN tt
  ELSE LET right == getDenseTensorType(Head(rest))
       IN  IF right.exc # "none" THEN [tt EXCEPT !.exc = right.exc]
           ELSE mergeLoop(merge(tt, right), Tail(rest))

getDenseTensorType(lit) ==
  LET fresh == DenseTensorType("UNKNOWN", <<0>>, "none")
  IN  CASE lit.k = "IntVectorLiteral" -> addIntValues(fresh, lit.len)
        [] lit.k = "FloatVectorLiteral" -> addFloatValues(fresh, lit.len)
        [] lit.k = "NDTensorLiteral" ->
             IF lit.transposed THEN [fresh EXCEPT !.exc = "assert"]
             ELSE LET first == getDenseTensorType(lit.elems[1])
                  IN  IF first.exc # "none" THEN first
                      ELSE mergeLoop(addDimension(first), Tail(lit.elems))

typeCheckDenseTensorLiteral(lit) ==
  LET tensorType == getDenseTensorType(lit)
      n == Len(tensorType.dimSizes)
      idoms == [i \in 1..n |-> <<RangeIS(tensorType.dimSizes[n + 1 - i])>>]
      elemType == IF tensorType.type = "INT" THEN "int" ELSE "float"
  IN  IF tensorType.exc = "assert" THEN Abort("assert", <<>>)
      ELSE IF tensorType.exc # "none" THEN Null(reportError(tensorType.exc))
      ELSE IF ~(Len(idoms) = 1 \/ ~lit.transposed) THEN Abort("assert", <<>>)
      ELSE One(TensorType(elemType, idoms, lit.transposed), <<>>)


RECURSIVE inferType(_, _, _)

\* variant of inferOperands that visits the right operand first
inferOperandsRightFirst(expr, C, p) ==
  LET r == inferType(expr.rhs, C, Append(p, "rhs"))
  IN  IF r.abort # "no" THEN [l |-> r, r |-> r, abort |-> r.abort, errs |-> r.errs]
      ELSE LET l == inferType(expr.lhs, C, Append(p, "lhs"))
           IN  [l |-> l, r |-> r, abort |-> l.abort, errs |-> r.errs \o l.errs]

\* both operands of a binary expression, left first (lines 627-628 and alike)
inferOperands(expr, C, p) ==
  LET l == inferType(expr.lhs, C, Append(p, "lhs"))
  IN  IF l.abort # "no" THEN [l |-> l, r |-> l, abort |-> l.abort, errs |-> l.errs]
      ELSE LET r == inferType(expr.rhs, C, Append(p, "rhs"))
           IN  [l |-> l, r |-> r, abort |-> r.abort, errs |-> l.errs \o r.errs]

typeCheckBinaryElwise(expr, C, p) ==
  LET o == inferOperands(expr, C, p)
      lhsType == o.l
      rhsType == o.r
      e1 == IF notNumericTensor(lhsType)
            THEN reportError("expected left operand of element-wise operation to be a numeric tensor")
            ELSE <<>>
      e2 == IF notNumericTensor(rhsType)
            THEN reportError("expected right operand of element-wise operation to be a numeric tensor")
            ELSE <<>>
      typeChecked == lhsType.def /\ rhsType.def /\ e1 = <<>> /\ e2 = <<>>
      errs == o.errs \o e1 \o e2
  IN  IF o.abort # "no" THEN Abort(o.abort, o.errs)
      ELSE IF ~typeChecked THEN Null(errs)
      ELSE LET ltype == lhsType.v[1]
               rtype == rhsType.v[1]
               hasScalarOperand == order(ltype) = 0 \/ order(rtype) = 0
           IN  IF (IF hasScalarOperand THEN ltype.comp # rtype.comp
                                       ELSE ~compareTypes(ltype, rtype))
               THEN Null(errs \o reportError("cannot perform element-wise operation on tensors"))
               ELSE IF order(ltype) > 0 THEN Res(TRUE, lhsType.v, errs)
                                        ELSE Res(TRUE, rhsType.v, errs)

typeCheckBinaryBoolean(expr, C, p) ==
  LET o == inferOperands(expr, C, p)
      e1 == IF notSingleBoolean(o.l)
            THEN reportError("expected left operand of boolean operation to be a boolean")
            ELSE <<>>
      e2 == IF notSingleBoolean(o.r)
            THEN reportError("expected right operand of boolean operation to be a boolean")
            ELSE <<>>
  IN  IF o.abort # "no" THEN Abort(o.abort, o.errs)
      ELSE One(IrBoolean, o.errs \o e1 \o e2)

RECURSIVE eqLoop(_, _, _, _, _, _)
\* the loop of visit(EqExpr) over operands i..n; rep is repType
eqLoop(operands, C, p, i, rep, errs) ==
  IF i > Len(operands) THEN One(IrBoolean, errs)
  ELSE LET opndType == inferType(operands[i], C, Append(p, "opnd" \o ToString(i)))
           errs1 == errs \o opndType.errs
       IN  IF opndType.abort # "no" THEN Abort(opndType.abort, errs1)
           ELSE IF ~opndType.def THEN eqLoop(operands, C, p, i + 1, rep, errs1)
           ELSE IF Len(opndType.v) # 1 \/ ~isScalar(opndType.v[1])
           THEN eqLoop(operands, C, p, i + 1, rep, errs1 \o reportError(
                  "comparison operations can only be performed on scalar values"))
           ELSE IF ~rep.def THEN eqLoop(operands, C, p, i + 1, opndType, errs1)
           ELSE IF ~compareTypes(rep.v[1], opndType.v[1])
           THEN eqLoop(operands, C, p, i + 1, rep, errs1 \o reportError(
                  "value cannot be compared to value of another type"))
           ELSE eqLoop(operands, C, p, i + 1, rep, errs1)

visitEqExpr(expr, C, p) == eqLoop(expr.operands, C, p, 1, Null(<<>>), <<>>)

visitNotExpr(expr, C, p) ==
  LET opndType == inferType(expr.operand, C, Append(p, "operand"))
  IN  IF opndType.abort # "no" THEN opndType
      ELSE One(IrBoolean, opndType.errs \o
             (IF notSingleBoolean(opndType)
              THEN reportError("expected a boolean operand") ELSE <<>>))

\* variant of vecVecShape without the comparison of the two dimensions
vecVecShapeNoDimCheck(ltype, rtype, errs) ==
  IF ltype.col /\ rtype.col
  THEN Null(errs \o reportError("cannot multiply two column vectors"))
  ELSE IF ~ltype.col /\ ~rtype.col
  THEN Null(errs \o reportError("cannot multiply two row vectors"))
  ELSE One(TensorType(ltype.comp,
                      IF ltype.col THEN <<ltype.dims[1], rtype.dims[1]>> ELSE <<>>,
                      FALSE), errs)

\* lines 677-700: vector times vector
vecVecShape(ltype, rtype, errs) ==
  IF ltype.col /\ rtype.col
  THEN Null(errs \o reportError("cannot multiply two column vectors"))
  ELSE IF ~ltype.col /\ ~rtype.col
  THEN Null(errs \o reportError("cannot multiply two row vectors"))
  ELSE IF ltype.dims[1] # rtype.dims[1]
  THEN Null(errs \o reportError("cannot multiply vectors"))
  ELSE One(TensorType(ltype.comp,
                      IF ltype.col THEN <<ltype.dims[1], rtype.dims[1]>> ELSE <<>>,
                      FALSE), errs)

\* lines 701-716: matrix times vector; the row-vector diagnostic does not return
matVecShape(ltype, rtype, errs) ==
  IF ltype.dims[2] # rtype.dims[1]
  THEN Null(errs \o reportError("cannot multiply a matrix by a vector"))
  ELSE One(TensorType(ltype.comp, <<ltype.dims[1]>>, TRUE),
           errs \o (IF ~rtype.col
                    THEN reportError("Cannot multiply a matrix by a row vector")
                    ELSE <<>>))

\* lines 717-733: vector times matrix; the column-vector diagnostic does not return
vecMatShape(ltype, rtype, errs) ==
  IF ltype.dims[1] # rtype.dims[1] \/ ltype.comp # rtype.comp
  THEN Null(errs \o reportError("cannot multiply a vector by a matrix"))
  ELSE One(TensorType(ltype.comp, <<rtype.dims[2]>>, FALSE),
           errs \o (IF ltype.col
                    THEN reportError("Cannot multiply a column vector by a matrix")
                    ELSE <<>>))

\* lines 673-749: the shape table of *, operands being numeric tensors of one
\* component type
mulShape(ltype, rtype, errs) ==
  LET lhsOrder == order(ltype)
      rhsOrder == order(rtype)
  IN  IF lhsOrder = 0 \/ rhsOrder = 0
      THEN One(IF lhsOrder > 0 THEN ltype ELSE rtype, errs)
      ELSE IF lhsOrder = 1 /\ rhsOrder = 1 THEN vecVecShape(ltype, rtype, errs)
      ELSE IF lhsOrder = 2 /\ rhsOrder = 1 THEN matVecShape(ltype, rtype, errs)
      ELSE IF lhsOrder = 1 /\ rhsOrder = 2 THEN vecMatShape(ltype, rtype, errs)
      ELSE IF lhsOrder = 2 /\ rhsOrder = 2
      THEN IF ltype.dims[2] # rtype.dims[1]
           THEN Null(errs \o reportError("cannot multiply matrices"))
           ELSE One(TensorType(ltype.comp, <<ltype.dims[1], rtype.dims[2]>>, FALSE), errs)
      ELSE Null(errs \o reportError("cannot multiply tensors of order 3 or greater using *"))

visitMulExpr(expr, C, p) ==
  LET o == inferOperands(expr, C, p)
      lhsType == o.l
      rhsType == o.r
      e1 == IF notNumericTensor(lhsType)
            THEN reportError("expected left operand of multiplication operation to be a numeric tensor")
            ELSE <<>>
      e2 == IF notNumericTensor(rhsType)
            THEN reportError("expected right operand of multiplication operation to be a numeric tensor")
            ELSE <<>>
      typeChecked == lhsType.def /\ rhsType.def /\ e1 = <<>> /\ e2 = <<>>
      errs == o.errs \o e1 \o e2
  IN  IF o.abort # "no" THEN Abort(o.abort, o.errs)
      ELSE IF ~typeChecked THEN Null(errs)
      ELSE IF lhsType.v[1].comp # rhsType.v[1].comp
      THEN Null(errs \o reportError("cannot multiply tensors containing elements of different types"))
      ELSE mulShape(lhsType.v[1], rhsType.v[1], errs)

visitDivExpr(expr, C, p) ==
  LET o == inferOperands(expr, C, p)
      lhsType == o.l
      rhsType == o.r
      e1 == IF notNumericTensor(lhsType)
            THEN reportError("expected left operand of division operation to be a numeric tensor")
            ELSE <<>>
      e2 == IF notNumericTensor(rhsType)
            THEN reportError("expected right operand of division operation to be a numeric tensor")
            ELSE <<>>
      typeChecked == lhsType.def /\ rhsType.def /\ e1 = <<>> /\ e2 = <<>>
      errs == o.errs \o e1 \o e2
  IN  IF o.abort # "no" THEN Abort(o.abort, o.errs)
      ELSE IF ~typeChecked THEN Null(errs)
      ELSE IF lhsType.v[1].comp # rhsType.v[1].comp
      THEN Null(errs \o reportError("cannot divide tensors containing elements of different types"))
      ELSE IF order(lhsType.v[1]) > 0 /\ order(rhsType.v[1]) > 0
      THEN Null(errs \o reportError(
             "division of a non-scalar tensor by a non-scalar tensor is not supported"))
      ELSE IF order(lhsType.v[1]) > 0 THEN Res(TRUE, lhsType.v, errs)
                                      ELSE Res(TRUE, rhsType.v, errs)

visitNegExpr(expr, C, p) ==
  LET opndType == inferType(expr.operand, C, Append(p, "operand"))
  IN  IF opndType.abort # "no" \/ ~opndType.def THEN opndType
      ELSE IF notNumericTensor(opndType)
      THEN Null(opndType.errs \o reportError(
             "expected operand of tensor negation to be a numeric tensor"))
      ELSE opndType

\* not_supported_yet: an internal error
visitExpExpr(expr, C, p) == Abort("assert", <<>>)

\* variant of visitTransposeExpr that keeps the order of a matrix's dimensions
visitTransposeExprNoSwap(expr, C, p) ==
  LET opndType == inferType(expr.operand, C, Append(p, "operand"))
  IN  IF opndType.abort # "no" \/ ~opndType.def THEN opndType
      ELSE IF Len(opndType.v) # 1 \/ ~isTensor(opndType.v[1]) \/ order(opndType.v[1]) > 2
      THEN Null(opndType.errs \o reportError(
             "operand of tensor transpose must be a tensor of order 2 or less"))
      ELSE LET tensorType == opndType.v[1]
           IN  CASE order(tensorType) = 0 -> opndType
                 [] order(tensorType) = 1 ->
                      One(TensorType(tensorType.comp, tensorType.dims, ~tensorType.col),
                          opndType.errs)
                 [] order(tensorType) = 2 ->
                      One(TensorType(tensorType.comp, tensorType.dims, FALSE),
                          opndType.errs)

visitTransposeExpr(expr, C, p) ==
  LET opndType == inferType(expr.operand, C, Append(p, "operand"))
  IN  IF opndType.abort # "no" \/ ~opndType.def THEN opndType
      ELSE IF Len(opndType.v) # 1 \/ ~isTensor(opndType.v[1]) \/ order(opndType.v[1]) > 2
      THEN Null(opndType.errs \o reportError(
             "operand of tensor transpose must be a tensor of order 2 or less"))
      ELSE LET tensorType == opndType.v[1]
               dimensions == tensorType.dims
           IN  CASE order(tensorType) = 0 -> opndType
                 [] order(tensorType) = 1 ->
                      One(TensorType(tensorType.comp, dimensions, ~tensorType.col),
                          opndType.errs)
                 [] order(tensorType) = 2 ->
                      One(TensorType(tensorType.comp, <<dimensions[2], dimensions[1]>>, FALSE),
                          opndType.errs)


RECURSIVE argLoop(_, _, _, _, _)
\* lines 890-900: infer every argument; acc = [types, errs, abort]
argLoop(arguments, C, p, i, acc) ==
  IF i > Len(arguments) \/ acc.abort # "no" THEN acc
  ELSE IF arguments[i].k = "null"
  THEN argLoop(arguments, C, p, i + 1,
         [acc EXCEPT !.types = Append(@, Null(<<>>))])
  ELSE LET t == inferType(arguments[i], C, Append(p, "arg" \o ToString(i)))
       IN  argLoop(arguments, C, p, i + 1,
             [types |-> Append(acc.types, t), errs |-> acc.errs \o t.errs,
              abort |-> t.abort])

\* lines 913-942: the diagnostic of argument i of a call, if any
callArgCheck(argType, funcArg) ==
  IF ~argType.def THEN <<>>
  ELSE IF Len(argType.v) = 0 THEN reportError("must pass a non-void value as argument")
  ELSE IF Len(argType.v) # 1
  THEN reportError("cannot pass multiple values as a single argument")
  ELSE IF ~compareTypes(argType.v[1], funcArg.type)
  THEN reportError("expected argument of another type")
  ELSE <<>>

RECURSIVE concatAll(_)
concatAll(ss) == IF ss = <<>> THEN <<>> ELSE Head(ss) \o concatAll(Tail(ss))

resultTypes(func) == [i \in 1..Len(func.results) |-> func.results[i].type]

visitCallExpr(expr, C, p) ==
  IF ~containsFunction(C.funcs, expr.func) THEN Abort("assert", <<>>)
  ELSE LET func == C.funcs[expr.func]
           funcArgs == func.arguments
           args == argLoop(expr.arguments, C, p, 1,
                           [types |-> <<>>, errs |-> <<>>, abort |-> "no"])
           checks ==
             IF Len(expr.arguments) # Len(funcArgs)
             THEN IF func.kind = "Intrinsic" /\ Len(funcArgs) = 0 THEN <<>>
                  ELSE reportError("passed in a wrong number of arguments")
             ELSE concatAll([i \in 1..Len(funcArgs) |->
                               callArgCheck(args.types[i], funcArgs[i])])
       IN  IF args.abort # "no" THEN Abort(args.abort, args.errs)
           ELSE Res(TRUE, resultTypes(func), args.errs \o checks)

RECURSIVE actualsLoop(_, _, _, _, _)
\* lines 456-476: the partial actuals of a map; acc = [types, errs, abort]
actualsLoop(actuals, C, p, i, acc) ==
  IF i > Len(actuals) \/ acc.abort # "no" THEN acc
  ELSE LET paramType == inferType(actuals[i], C, Append(p, "actual" \o ToString(i)))
           errs1 == acc.errs \o paramType.errs
       IN  IF paramType.abort # "no"
           THEN [types |-> acc.types, errs |-> errs1, abort |-> paramType.abort]
           ELSE IF ~paramType.def
           THEN actualsLoop(actuals, C, p, i + 1,
                  [acc EXCEPT !.types = Append(@, Undefined), !.errs = errs1])
           ELSE IF Len(paramType.v) = 0
           THEN actualsLoop(actuals, C, p, i + 1,
                  [acc EXCEPT !.types = Append(@, Undefined),
                              !.errs = errs1 \o reportError("must pass a non-void value as argument")])
           ELSE IF Len(paramType.v) # 1
           THEN actualsLoop(actuals, C, p, i + 1,
                  [acc EXCEPT !.types = Append(@, Undefined),
                              !.errs = errs1 \o reportError("cannot pass multiple values as a single argument")])
           ELSE actualsLoop(actuals, C, p, i + 1,
                  [acc EXCEPT !.types = Append(@, paramType.v[1]), !.errs = errs1])

\* lines 511-524: the actuals the assembly function is checked against
mapActuals(partial, targetSetType, funcArgs) ==
  LET withElem == Append(partial, targetSetType.elementType)
  IN  IF Len(targetSetType.endpointSets) > 0 /\ Len(withElem) # Len(funcArgs)
      THEN Append(withElem,
                  TupleTypeMake(targetSetType.endpointSets[1].type.elementType,
                                Len(targetSetType.endpointSets)))
      ELSE withElem

\* lines 536-555: the diagnostic of actual i of a map, if any
mapArgCheck(actual, funcArg) ==
  IF ~defined(actual) \/ ~defined(funcArg.type) THEN <<>>
  ELSE IF ~compareTypes(actual, funcArg.type)
  THEN reportError("map operation passes argument of another type than the function expects")
  ELSE <<>>

visitMapExpr(expr, C, p) ==
  LET acts == actualsLoop(expr.partialActuals, C, p, 1,
                          [types |-> <<>>, errs |-> <<>>, abort |-> "no"])
      hasFunc == containsFunction(C.funcs, expr.func)
      e1 == IF ~hasFunc THEN reportUndeclared("function", expr.func) ELSE <<>>
      \* retType is assigned as soon as the function is found (lines 488-491)
      published == IF hasFunc THEN [def |-> TRUE, v |-> resultTypes(C.funcs[expr.func])]
                              ELSE [def |-> FALSE, v |-> <<>>]
      hasTarget == hasSymbol(C.symtab, expr.target)
      targetIsSet == hasTarget /\ isSet(getSymbol(C.symtab, expr.target).type)
      e2 == IF ~hasTarget THEN reportUndeclared("set", expr.target)
            ELSE IF ~targetIsSet
            THEN reportError("map operation can only be applied to sets")
            ELSE <<>>
      errs == acts.errs \o e1 \o e2
  IN  IF acts.abort # "no" THEN Abort(acts.abort, acts.errs)
      ELSE IF ~hasFunc \/ ~targetIsSet THEN Res(published.def, published.v, errs)
      ELSE LET func == C.funcs[expr.func]
               funcArgs == func.arguments
               actualsType == mapActuals(acts.types,
                                getSymbol(C.symtab, expr.target).type, funcArgs)
           IN  IF Len(actualsType) # Len(funcArgs)
               THEN Res(published.def, published.v, errs \o reportError(
                      "map operation passes a wrong number of arguments to assembly function"))
               ELSE Res(published.def, published.v, errs \o
                      concatAll([i \in 1..Len(funcArgs) |->
                                   mapArgCheck(actualsType[i], funcArgs[i])]))


\* lines 1009-1039: the diagnostic for a single-valued index on an axis
indexTypeCheck(outerDim, indexType) ==
  CASE outerDim.kind = "range" ->
         IF ~isInt(indexType) THEN reportError("expected an integral index") ELSE <<>>
    [] outerDim.kind = "set" ->
         IF isInt(indexType) THEN <<>>
         ELSE IF ~compareTypes(outerDim.set.type.elementType, indexType)
         THEN reportError("expected an integral index or an index of the set's element type")
         ELSE <<>>
    [] OTHER -> <<>>

RECURSIVE indexLoop(_, _, _, _, _, _)
\* lines 981-1040: the loop over the indices of a tensor read;
\* acc = [dims, errs, abort]
indexLoop(indices, tensorType, C, p, i, acc) ==
  IF i > Len(indices) \/ acc.abort # "no" THEN acc
  ELSE IF indices[i].slice
  THEN indexLoop(indices, tensorType, C, p, i + 1,
         [acc EXCEPT !.dims = Append(@, tensorType.dims[i])])
  ELSE LET indexType == inferType(indices[i].expr, C, Append(p, "index" \o ToString(i)))
           errs1 == acc.errs \o indexType.errs
           check == IF ~indexType.def THEN <<>>
                    ELSE IF Len(indexType.v) = 0
                    THEN reportError("must pass a non-void value as index")
                    ELSE IF Len(indexType.v) # 1
                    THEN reportError("cannot pass multiple values as a single index")
                    ELSE indexTypeCheck(getOuterDimensions(tensorType)[i], indexType.v[1])
       IN  indexLoop(indices, tensorType, C, p, i + 1,
             [dims |-> acc.dims, errs |-> errs1 \o check, abort |-> indexType.abort])

\* variant of readResultType that marks every unsliced read a column vector
readResultTypeNoOrderCheck(tensorType, dims, lastIsSlice) ==
  IF dims = <<>> THEN getBlockType(tensorType)
  ELSE TensorType(tensorType.comp, dims, ~lastIsSlice)

\* variant of readResultType that never marks the result a column vector
readResultTypeRowVector(tensorType, dims, lastIsSlice) ==
  IF dims = <<>> THEN getBlockType(tensorType)
  ELSE TensorType(tensorType.comp, dims, FALSE)

\* lines 1042-1051: the type a tensor read publishes
readResultType(tensorType, dims, lastIsSlice) ==
  IF dims = <<>> THEN getBlockType(tensorType)
  ELSE TensorType(tensorType.comp, dims, Len(dims) = 1 /\ ~lastIsSlice)

\* lines 1052-1074: a read of a tuple
tupleRead(expr, tupleType, C, p, errs) ==
  IF Len(expr.indices) # 1
  THEN One(tupleType.elementType,
           errs \o reportError("tuple access expects exactly one index"))
  ELSE IF expr.indices[1].slice
  THEN One(tupleType.elementType,
           errs \o reportError("tuple access expects an integral index"))
  ELSE LET indexType == inferType(expr.indices[1].expr, C, Append(p, "index1"))
           errs1 == errs \o indexType.errs
           bad == reportError("tuple access expects an integral index")
       IN  IF indexType.abort # "no" THEN Abort(indexType.abort, errs1)
           ELSE IF ~indexType.def
           THEN \* indexType->size() through a null pointer
                CASE C.ub = "crash" -> Abort("nullderef", errs1)
                  [] C.ub = "mismatch" -> One(tupleType.elementType, errs1 \o bad)
                  [] C.ub = "match" -> One(tupleType.elementType, errs1)
           ELSE IF Len(indexType.v) # 1 \/ ~isInt(indexType.v[1])
           THEN One(tupleType.elementType, errs1 \o bad)
           ELSE One(tupleType.elementType, errs1)

visitTensorReadExpr(expr, C, p) ==
  LET lhsType == inferType(expr.tensor, C, Append(p, "tensor"))
  IN  IF lhsType.abort # "no" \/ ~lhsType.def THEN lhsType
      ELSE IF Len(lhsType.v) # 1
      THEN Null(lhsType.errs \o reportError(
             "can only access elements of a single tensor or tuple"))
      ELSE IF isTensor(lhsType.v[1])
      THEN LET tensorType == lhsType.v[1]
           IN  IF Len(tensorType.dims) # Len(expr.indices)
               THEN Null(lhsType.errs \o reportError(
                      "tensor access got a wrong number of indices"))
               ELSE LET loop == indexLoop(expr.indices, tensorType, C, p, 1,
                                  [dims |-> <<>>, errs |-> lhsType.errs, abort |-> "no"])
                        n == Len(expr.indices)
                    IN  IF loop.abort # "no" THEN Abort(loop.abort, loop.errs)
                        ELSE One(readResultType(tensorType, loop.dims,
                                                expr.indices[n].slice), loop.errs)
      ELSE IF isTuple(lhsType.v[1])
      THEN tupleRead(expr, lhsType.v[1], C, p, lhsType.errs)
      ELSE Null(lhsType.errs \o reportError("cannot access elements from objects of this type"))

\* TupleReadExpr never reaches the checker: unreachable
visitTupleReadExpr(expr, C, p) == Abort("assert", <<>>)

visitFieldReadExpr(expr, C, p) ==
  LET lhsType == inferType(expr.setOrElem, C, Append(p, "setOrElem"))
  IN  IF lhsType.abort # "no" \/ ~lhsType.def THEN lhsType
      ELSE IF Len(lhsType.v) # 1
      THEN Null(lhsType.errs \o reportError(
             "can only access fields of a single set or element"))
      ELSE LET type == lhsType.v[1]
           IN  IF ~isElement(type) /\ ~isSet(type)
               THEN Null(lhsType.errs \o reportError(
                      "field accesses are only valid for sets and elements"))
               ELSE LET elemType == IF isElement(type) THEN type ELSE type.elementType
                    IN  IF ~hasField(elemType, expr.field)
                        THEN Null(lhsType.errs \o <<Err("undefined field", expr.field)>>)
                        ELSE IF isElement(type)
                        THEN One(field(elemType, expr.field).type, lhsType.errs)
                        ELSE IF expr.setOrElem.k # "VarExpr" THEN Abort("assert", lhsType.errs)
                        ELSE LET sym == getSymbol(C.symtab, expr.setOrElem.ident)
                                 fieldType == getFieldType(Var(sym.name, sym.type), expr.field)
                             IN  IF order(fieldType) > 1
                                 THEN Null(lhsType.errs \o reportError(
                                        "cannot read from non-scalar and non-vector set fields"))
                                 ELSE One(fieldType, lhsType.errs)

\* inferType: reset the out-slot, dispatch on the node kind, read the out-slot
inferType(expr, C, p) ==
  CASE expr.k = "VarExpr" -> visitVarExpr(expr, C, p)
    [] expr.k = "IntLiteral" -> visitIntLiteral(expr)
    [] expr.k = "FloatLiteral" -> visitFloatLiteral(expr)
    [] expr.k = "BoolLiteral" -> visitBoolLiteral(expr)
    [] expr.k \in {"IntVectorLiteral", "FloatVectorLiteral", "NDTensorLiteral"} ->
         typeCheckDenseTensorLiteral(expr)
    [] expr.k \in {"OrExpr", "AndExpr", "XorExpr"} -> typeCheckBinaryBoolean(expr, C, p)
    [] expr.k = "EqExpr" -> visitEqExpr(expr, C, p)
    [] expr.k = "NotExpr" -> visitNotExpr(expr, C, p)
    [] expr.k \in {"AddExpr", "SubExpr", "ElwiseMulExpr", "ElwiseDivExpr"} ->
         typeCheckBinaryElwise(expr, C, p)
    [] expr.k = "MulExpr" -> visitMulExpr(expr, C, p)
    [] expr.k = "DivExpr" -> visitDivExpr(expr, C, p)
    [] expr.k = "NegExpr" -> visitNegExpr(expr, C, p)
    [] expr.k = "ExpExpr" -> visitExpExpr(expr, C, p)
    [] expr.k = "TransposeExpr" -> visitTransposeExpr(expr, C, p)
    [] expr.k = "CallExpr" -> visitCallExpr(expr, C, p)
    [] expr.k = "MapExpr" -> visitMapExpr(expr, C, p)
    [] expr.k = "TensorReadExpr" -> visitTensorReadExpr(expr, C, p)
    [] expr.k = "TupleReadExpr" -> visitTupleReadExpr(expr, C, p)
    [] expr.k = "FieldReadExpr" -> visitFieldReadExpr(expr, C, p)


---------------------------------------------------------------------------
(* HIR constructors *)

VarExpr(ident) == [k |-> "VarExpr", ident |-> ident]
IntLiteral == [k |-> "IntLiteral"]
FloatLiteral == [k |-> "FloatLiteral"]
BoolLiteral == [k |-> "BoolLiteral"]
VectorLiteral(kind, len, transposed) == [k |-> kind, len |-> len, transposed |-> transposed]
NDTensorLiteral(elms, transposed) ==
  [k |-> "NDTensorLiteral", elems |-> elms, transposed |-> transposed]
Unary(kind, operand) == [k |-> kind, operand |-> operand]
Binary(kind, lhs, rhs) == [k |-> kind, lhs |-> lhs, rhs |-> rhs]
EqExpr(operands) == [k |-> "EqExpr", operands |-> operands]
CallExpr(func, arguments) == [k |-> "CallExpr", func |-> func, arguments |-> arguments]
MapExpr(func, target, partialActuals) ==
  [k |-> "MapExpr", func |-> func, target |-> target, partialActuals |-> partialActuals]
Slice == [slice |-> TRUE]
ExprParam(expr) == [slice |-> FALSE, expr |-> expr]
TensorReadExpr(tensor, indices) ==
  [k |-> "TensorReadExpr", tensor |-> tensor, indices |-> indices]
FieldReadExpr(setOrElem, fld) ==
  [k |-> "FieldReadExpr", setOrElem |-> setOrElem, field |-> fld]

ScalarType(type) == [k |-> "ScalarType", type |-> type]
NDTensorType(blockType, indexSets, columnVector) ==
  [k |-> "NDTensorType", blockType |-> blockType, indexSets |-> indexSets,
   columnVector |-> columnVector]
ElementType(ident) == [k |-> "ElementType", ident |-> ident]
SetType(element, endpoints) ==
  [k |-> "SetType", element |-> ElementType(element), endpoints |-> endpoints]
TupleType(element, length) ==
  [k |-> "TupleType", element |-> ElementType(element), length |-> length]
RangeIndexSet(n) == [k |-> "RangeIndexSet", range |-> n]
SetIndexSet(name) == [k |-> "SetIndexSet", setName |-> name]
DynamicIndexSet == [k |-> "DynamicIndexSet"]

---------------------------------------------------------------------------
(* The context of the assemble-and-multiply programs of the test inputs:    *)
(* elements Point and Spring, sets points and springs, function f, and one  *)
(* variable of every tensor shape the shape rules distinguish.              *)

PointT ==
  ElementTypeMake("Point", <<[name |-> "b", type |-> IrFloat],
                             [name |-> "c", type |-> IrFloat],
                             [name |-> "x", type |-> TensorType("float", << <<RangeIS(3)>> >>, FALSE)],
                             [name |-> "J", type |-> TensorType("float",
                                 << <<RangeIS(3)>>, <<RangeIS(3)>> >>, FALSE)]>>)

SpringT == ElementTypeMake("Spring", <<[name |-> "a", type |-> IrFloat]>>)

PointsT == SetTypeMake(PointT, <<>>)
PointsVar == Var("points", PointsT)
SpringsT == SetTypeMake(SpringT, <<PointsVar, PointsVar>>)

Dim(n) == <<RangeIS(n)>>
DimPoints == <<SetIS(PointsVar)>>

EnvTypes ==
  [i |-> IrInt, s |-> IrFloat, t |-> IrBoolean,
   r3 |-> TensorType("float", <<Dim(3)>>, FALSE),
   c3 |-> TensorType("float", <<Dim(3)>>, TRUE),
   r2 |-> TensorType("float", <<Dim(2)>>, FALSE),
   c2 |-> TensorType("float", <<Dim(2)>>, TRUE),
   ic3 |-> TensorType("int", <<Dim(3)>>, TRUE),
   bc3 |-> TensorType("bool", <<Dim(3)>>, TRUE),
   m33 |-> TensorType("float", <<Dim(3), Dim(3)>>, FALSE),
   m32 |-> TensorType("float", <<Dim(3), Dim(2)>>, FALSE),
   cp |-> TensorType("float", <<DimPoints>>, TRUE),
   rp |-> TensorType("float", <<DimPoints>>, FALSE),
   App |-> TensorType("float", <<DimPoints, DimPoints>>, FALSE),
   dyn |-> TensorType("float", << <<DynamicIS>> >>, TRUE),
   t222 |-> TensorType("float", <<Dim(2), Dim(2), Dim(2)>>, FALSE),
   bv |-> TensorType("float", << <<SetIS(PointsVar), RangeIS(3)>> >>, TRUE),
   bm |-> TensorType("float", << <<SetIS(PointsVar), RangeIS(3)>>,
                                 <<SetIS(PointsVar), RangeIS(3)>> >>, FALSE),
   points |-> PointsT, springs |-> SpringsT,
   p |-> PointT, pp |-> TupleTypeMake(PointT, 2),
   u |-> Undefined]

EnvScope ==
  [n \in DOMAIN EnvTypes |->
     Symbol(n, EnvTypes[n], ReadWrite)]

FuncF ==
  Func("f", <<Var("s", SpringT), Var("p", TupleTypeMake(PointT, 2))>>,
       <<Var("A", EnvTypes.App)>>, "Internal")

FuncG ==
  Func("g", <<Var("a", IrFloat)>>, <<Var("x", IrFloat), Var("y", IrInt)>>, "Internal")

FuncNorm == Func("norm", <<>>, <<Var("r", IrFloat)>>, "Intrinsic")

FuncInit == Func("init", <<>>, <<>>, "Internal")

\* func eye(p : Point) -> (I : tensor[points,points](float))
FuncEye == Func("eye", <<Var("p", PointT)>>, <<Var("I", EnvTypes.App)>>, "Internal")

\* func dist_mass(zz : float, p : Point) -> (A : tensor[points,points](float))
FuncDistMass ==
  Func("dist_mass", <<Var("zz", IrFloat), Var("p", PointT)>>,
       <<Var("A", EnvTypes.App)>>, "Internal")

\* an assembly function over springs that declares no neighbour tuple
FuncStiff == Func("stiff", <<Var("s", SpringT)>>, <<Var("A", EnvTypes.App)>>, "Internal")

EnvFuncs == [n \in {"f", "g", "norm", "init", "eye", "dist_mass", "stiff"} |->
               CASE n = "f" -> FuncF [] n = "g" -> FuncG
                 [] n = "norm" -> FuncNorm [] n = "init" -> FuncInit
                 [] n = "eye" -> FuncEye [] n = "dist_mass" -> FuncDistMass
                 [] n = "stiff" -> FuncStiff]

EnvElems == [n \in {"Point", "Spring"} |-> IF n = "Point" THEN PointT ELSE SpringT]


---------------------------------------------------------------------------
(* Single-visit specification: the checker, in the context above, visits    *)
(* one expression or type node drawn from the sets below.                   *)

SeqsUpTo(S, n) == UNION {[1..m -> S] : m \in 0..n}

Operands ==
  {VarExpr(n) : n \in (DOMAIN EnvTypes) \cup {"zz"}}
    \cup {IntLiteral, FloatLiteral, BoolLiteral,
          CallExpr("g", <<FloatLiteral>>), CallExpr("init", <<>>)}

ElwiseKinds == {"AddExpr", "SubExpr", "ElwiseMulExpr", "ElwiseDivExpr"}
BooleanKinds == {"OrExpr", "AndExpr", "XorExpr"}
UnaryKinds == {"NotExpr", "NegExpr", "TransposeExpr"}
LiteralKinds ==
  {"IntLiteral", "FloatLiteral", "BoolLiteral", "IntVectorLiteral",
   "FloatVectorLiteral", "NDTensorLiteral"}
TypeKinds == {"ScalarType", "NDTensorType", "ElementType", "SetType", "TupleType"}

IndexChoices ==
  {Slice, ExprParam(VarExpr("i")), ExprParam(VarExpr("s")), ExprParam(VarExpr("p")),
   ExprParam(VarExpr("zz"))}

VectorLiterals ==
  {VectorLiteral(kd, n, tr) : kd \in {"IntVectorLiteral", "FloatVectorLiteral"},
                              n \in 1..MaxLitLen, tr \in BOOLEAN}

RowLiterals == {l \in VectorLiterals : ~l.transposed}

MatrixLiterals ==
  {NDTensorLiteral(rows, FALSE) : rows \in SeqsUpTo(RowLiterals, MaxLitLen) \ {<<>>}}

DenseLiterals ==
  VectorLiterals \cup MatrixLiterals
    \cup {NDTensorLiteral(<<r>>, TRUE) : r \in RowLiterals}
    \cup {NDTensorLiteral(<<m1, m2>>, FALSE) :
            m1 \in {m \in MatrixLiterals : Len(m.elems) = 1},
            m2 \in {m \in MatrixLiterals : Len(m.elems) <= 2 /\ m.elems[1].len = 1}
                     \cup {VectorLiteral("FloatVectorLiteral", 1, FALSE)}}

IndexSetChoices ==
  {RangeIndexSet(3), RangeIndexSet(1), SetIndexSet("points"), SetIndexSet("u"),
   SetIndexSet("s"), SetIndexSet("zz"), DynamicIndexSet}

BlockChoices ==
  {ScalarType("float"), ScalarType("int"), ScalarType("bool"),
   NDTensorType(ScalarType("float"), <<RangeIndexSet(3)>>, FALSE),
   NDTensorType(ScalarType("float"), <<RangeIndexSet(3)>>, TRUE),
   NDTensorType(ScalarType("float"), <<RangeIndexSet(3), RangeIndexSet(3)>>, FALSE),
   NDTensorType(ScalarType("float"), <<SetIndexSet("zz")>>, FALSE)}

TypeInputs ==
  {NDTensorType(b, iss, cv) : b \in BlockChoices,
                              iss \in SeqsUpTo(IndexSetChoices, MaxIndices - 1),
                              cv \in BOOLEAN}
    \cup {ElementType(n) : n \in {"Point", "Nope"}}
    \cup {SetType(e, ends) : e \in {"Spring", "Nope"},
                             ends \in SeqsUpTo({"points", "u", "s", "zz"}, 2)}
    \cup {TupleType(e, n) : e \in {"Point", "Nope"}, n \in 0..2}

ExprInputs ==
  Operands
    \cup {Binary(kd, l, r) : kd \in ElwiseKinds \cup BooleanKinds \cup {"MulExpr", "DivExpr", "ExpExpr"},
                             l \in Operands, r \in Operands}
    \cup {EqExpr(<<l, r>>) : l \in Operands, r \in Operands}
    \cup {EqExpr(<<IntLiteral, l, r>>) : l \in Operands, r \in {IntLiteral, FloatLiteral}}
    \cup {Unary(kd, o) : kd \in UnaryKinds, o \in Operands}
    \cup {Unary("TransposeExpr", Unary("TransposeExpr", o)) : o \in Operands}
    \cup {TensorReadExpr(t, ix) : t \in Operands,
                                  ix \in SeqsUpTo(IndexChoices, MaxIndices) \ {<<>>}}
    \cup {FieldReadExpr(o, fl) : o \in Operands, fl \in {"b", "x", "J", "a", "zzz"}}
    \cup {FieldReadExpr(TensorReadExpr(VarExpr("pp"), <<ExprParam(IntLiteral)>>), "b")}
    \cup {CallExpr(fn, args) : fn \in {"f", "g", "norm", "init", "undeclared"},
                               args \in SeqsUpTo({FloatLiteral, IntLiteral, VarExpr("zz"),
                                                  VarExpr("u"), CallExpr("init", <<>>),
                                                  CallExpr("g", <<FloatLiteral>>),
                                                  [k |-> "null"]}, 2)}
    \cup {MapExpr(fn, tg, pa) : fn \in {"f", "g", "eye", "dist_mass", "stiff", "undeclared"},
                                tg \in {"springs", "points", "u", "s", "zz"},
                                pa \in SeqsUpTo({FloatLiteral, VarExpr("zz"),
                                                 CallExpr("init", <<>>),
                                                 CallExpr("g", <<FloatLiteral>>)}, 1)}
    \cup DenseLiterals
    \cup {[k |-> "TupleReadExpr"]}

InitExpr ==
  /\ symtab = <<EnvScope>>
  /\ elems = EnvElems
  /\ funcs = EnvFuncs
  /\ errors = <<>>
  /\ aborted = FALSE
  /\ frames = <<>>
  /\ node \in ExprInputs \cup TypeInputs
  /\ retType = [def |-> FALSE, v |-> <<>>]
  /\ pc = "ready"
  /\ steps = 0
  /\ checkWritable = NoNode
  /\ skipCheckDeclared = FALSE

\* the checker infers the type of `node` (inferType(node)) and returns
VisitExpr(kinds) ==
  /\ pc = "ready"
  /\ node.k \in kinds
  /\ \E nd \in UBOutcomes :
       LET r == inferType(node, Ctx(symtab, elems, funcs, checkWritable, skipCheckDeclared, nd), <<"expr">>)
       IN  /\ retType' = [def |-> r.def, v |-> r.v]
           /\ errors' = errors \o r.errs
           /\ aborted' = (r.abort # "no")
  /\ pc' = "visited"
  /\ steps' = steps + 1
  /\ UNCHANGED <<symtab, elems, funcs, frames, node, checkWritable, skipCheckDeclared>>

VisitVarExpr == VisitExpr({"VarExpr"})
VisitLiteral == VisitExpr(LiteralKinds)
VisitBinaryElwise == VisitExpr(ElwiseKinds)
VisitBinaryBoolean == VisitExpr(BooleanKinds)
VisitEqExpr == VisitExpr({"EqExpr"})
VisitUnary == VisitExpr(UnaryKinds)
VisitMulExpr == VisitExpr({"MulExpr"})
VisitDivExpr == VisitExpr({"DivExpr"})
VisitUnsupported == VisitExpr({"ExpExpr", "TupleReadExpr"})
VisitCallExpr == VisitExpr({"CallExpr"})
VisitMapExpr == VisitExpr({"MapExpr"})
VisitTensorReadExpr == VisitExpr({"TensorReadExpr"})
VisitFieldReadExpr == VisitExpr({"FieldReadExpr"})

\* the checker lowers the type node `node` (getIRType(node)) and returns
LowerType ==
  /\ pc = "ready"
  /\ node.k \in TypeKinds
  /\ LET r == getIRType(node, Ctx(symtab, elems, funcs, checkWritable, skipCheckDeclared, "crash"))
     IN  /\ retType' = [def |-> defined(r.type), v |-> <<r.type>>]
         /\ errors' = errors \o r.errs
  /\ pc' = "visited"
  /\ steps' = steps + 1
  /\ UNCHANGED <<symtab, elems, funcs, frames, node, aborted, checkWritable, skipCheckDeclared>>

NextExpr ==
  \/ VisitVarExpr \/ VisitLiteral \/ VisitBinaryElwise \/ VisitBinaryBoolean
  \/ VisitEqExpr \/ VisitUnary \/ VisitMulExpr \/ VisitDivExpr \/ VisitUnsupported
  \/ VisitCallExpr \/ VisitMapExpr \/ VisitTensorReadExpr \/ VisitFieldReadExpr
  \/ LowerType

SpecExpr == InitExpr /\ [][NextExpr]_vars


---------------------------------------------------------------------------
(* Statements and declarations: the effect of a visit on the context.       *)

Eff(st, errs, abort, type) == [symtab |-> st, errs |-> errs, abort |-> abort, type |-> type]

NullType == [def |-> FALSE, v |-> <<>>]
PtrOf(r) == [def |-> r.def, v |-> r.v]

\* variant of markCheckWritable that marks a direct variable target only
markCheckWritableDirect(n, p) == IF n.k = "VarExpr" THEN p ELSE NoNode

RECURSIVE markCheckWritable(_, _)
\* the node the write mark is put on: the path of the base variable of a target
markCheckWritable(n, p) ==
  CASE n.k = "VarExpr" -> p
    [] n.k = "TensorReadExpr" -> markCheckWritable(n.tensor, Append(p, "tensor"))
    [] n.k = "FieldReadExpr" -> markCheckWritable(n.setOrElem, Append(p, "setOrElem"))
    [] OTHER -> NoNode

\* lines 397-399: the marks while target `target` (at path p) is inferred;
\* a target without a base variable leaves the write mark as it is
setMarks(target, p, cw) ==
  [checkWritable |-> IF markCheckWritable(target, p) = NoNode
                     THEN cw ELSE markCheckWritable(target, p),
   skipCheckDeclared |-> (target.k = "VarExpr")]

\* variant of resetMarks that leaves skipCheckDeclared as it is
resetMarksKeepSkip(cw, skip) == [checkWritable |-> NoNode, skipCheckDeclared |-> skip]

\* lines 408-409: the marks after a target has been inferred
resetMarks(cw, skip) == [checkWritable |-> NoNode, skipCheckDeclared |-> FALSE]

\* lines 379-385: only a single tensor can be printed
printCheck(C, exprType) ==
  IF exprType.abort # "no" THEN Eff(C.symtab, exprType.errs, exprType.abort, NullType)
  ELSE Eff(C.symtab,
           exprType.errs \o
             (IF exprType.def /\ (Len(exprType.v) # 1 \/ ~isTensor(exprType.v[1]))
              THEN reportError("cannot print an expression of this type") ELSE <<>>),
           "no", PtrOf(exprType))

visitPrintStmt(stmt, C) == printCheck(C, inferType(stmt.expr, C, <<"expr">>))

\* lines 401-406: the type recorded for one target
lhsNext(acc, ltype) ==
  [lhsType |-> Append(acc.lhsType,
                      IF ltype.def /\ Len(ltype.v) = 1 THEN ltype.v[1] ELSE Undefined),
   errs |-> acc.errs \o ltype.errs, abort |-> ltype.abort]

RECURSIVE lhsLoop(_, _, _, _)
\* lines 392-410: infer every target; acc = [lhsType, errs, abort]
lhsLoop(lhs, C, i, acc) ==
  IF i > Len(lhs) \/ acc.abort # "no" THEN acc
  ELSE lhsLoop(lhs, C, i + 1,
         lhsNext(acc,
           inferType(lhs[i],
                     [C EXCEPT !.checkWritable =
                                 markCheckWritable(lhs[i], <<"lhs" \o ToString(i)>>),
                               !.skipCheckDeclared = (lhs[i].k = "VarExpr")],
                     <<"lhs" \o ToString(i)>>)))

\* variant of assignCheck that compares tensors without the column-vector flag
assignCheckIgnoreColumn(ltype, rtype) ==
  IF defined(ltype)
     /\ ~(IF isTensor(ltype) /\ isTensor(rtype) THEN tensorEq(ltype, rtype) ELSE ltype = rtype)
     /\ (~isTensor(ltype) \/ ~isScalar(rtype) \/ ltype.comp # rtype.comp)
  THEN reportError("cannot assign a value of this type to a target of that type")
  ELSE <<>>

\* lines 427-438: the diagnostic for target i, if any
assignCheck(ltype, rtype) ==
  IF defined(ltype) /\ ~compareTypes(ltype, rtype)
     /\ (~isTensor(ltype) \/ ~isScalar(rtype) \/ ltype.comp # rtype.comp)
  THEN reportError("cannot assign a value of this type to a target of that type")
  ELSE <<>>

RECURSIVE declareTargets(_, _, _, _, _)
\* lines 443-452: targets that are variables without a binding become locals
declareTargets(lhs, st, i, typeChecked, exprType) ==
  IF i > Len(lhs) THEN st
  ELSE IF lhs[i].k = "VarExpr" /\ ~hasSymbol(st, lhs[i].ident)
  THEN declareTargets(lhs,
         addSymbol(st, lhs[i].ident,
                   IF typeChecked THEN exprType.v[i] ELSE Undefined, ReadWrite),
         i + 1, typeChecked, exprType)
  ELSE declareTargets(lhs, st, i + 1, typeChecked, exprType)

\* lines 412-452: count check, type checks, declaration of new targets
assignFinish(stmt, C, exprType, targets) ==
  LET countOk == exprType.def /\ Len(stmt.lhs) = Len(exprType.v)
      e1 == IF exprType.def /\ ~countOk
            THEN reportError("cannot assign an expression returning "
                               \o ToString(Len(exprType.v)) \o " values to "
                               \o ToString(Len(stmt.lhs)) \o " targets")
            ELSE <<>>
      e2 == IF countOk
            THEN concatAll([i \in 1..Len(stmt.lhs) |->
                              assignCheck(targets.lhsType[i], exprType.v[i])])
            ELSE <<>>
      typeChecked == countOk /\ e2 = <<>>
  IN  IF targets.abort # "no" THEN Eff(C.symtab, targets.errs, targets.abort, NullType)
      ELSE Eff(declareTargets(stmt.lhs, C.symtab, 1, typeChecked, exprType),
               targets.errs \o e1 \o e2, "no", PtrOf(exprType))

assignTargets(stmt, C, exprType) ==
  IF exprType.abort # "no" THEN Eff(C.symtab, exprType.errs, exprType.abort, NullType)
  ELSE assignFinish(stmt, C, exprType,
         lhsLoop(stmt.lhs, C, 1, [lhsType |-> <<>>, errs |-> exprType.errs, abort |-> "no"]))

visitAssignStmt(stmt, C) == assignTargets(stmt, C, inferType(stmt.expr, C, <<"expr">>))

\* lines 1311-1323: the first dimension that is not the range of length 1
RECURSIVE skipUnitDims(_)
skipUnitDims(dims) ==
  IF dims = <<>> THEN dims
  ELSE IF Head(dims) # RangeIS(1) THEN dims
  ELSE skipUnitDims(Tail(dims))

\* line 1325, std::equal(varDimsIt, varDims.end(), initDimsIt): compares as
\* many entries as the declared type has left; when the initializer has fewer
\* the comparison reads past the end of initDims
dimsEqual(varRest, initRest, ub) ==
  IF Len(initRest) >= Len(varRest)
  THEN IF \A i \in 1..Len(varRest) : varRest[i] = initRest[i] THEN "equal" ELSE "differ"
  ELSE IF \E i \in 1..Len(initRest) : varRest[i] # initRest[i] THEN "differ"
  ELSE CASE ub = "crash" -> "crash" [] ub = "match" -> "equal" [] ub = "mismatch" -> "differ"

\* lines 1277-1330: the initial value against the declared type
initCheck(varType, initType, isConst, ub) ==
  LET bad == reportError("cannot initialize a variable or constant with an expression of this type")
  IN  IF ~initType.def \/ (Len(initType.v) = 1 /\ compareTypes(varType, initType.v[1]))
      THEN [errs |-> <<>>, abort |-> "no"]
      ELSE IF ~isTensor(varType) THEN [errs |-> <<>>, abort |-> "assert"]
      ELSE IF Len(initType.v) # 1 \/ ~isTensor(initType.v[1])
      THEN [errs |-> bad, abort |-> "no"]
      ELSE IF isScalar(initType.v[1]) /\ varType.comp = initType.v[1].comp
      THEN [errs |-> <<>>, abort |-> "no"]
      ELSE IF isConst /\ compareTypes(getBlockType(varType), getBlockType(initType.v[1]))
      THEN LET eq == dimsEqual(skipUnitDims(getOuterDimensions(varType)),
                               skipUnitDims(getOuterDimensions(initType.v[1])), ub)
           IN  CASE eq = "equal" -> [errs |-> <<>>, abort |-> "no"]
                 [] eq = "differ" -> [errs |-> bad, abort |-> "no"]
                 [] eq = "crash" -> [errs |-> <<>>, abort |-> "outofbounds"]
      ELSE [errs |-> bad, abort |-> "no"]

\* variant of declCheck that looks the name up in every scope
declCheckAnyScope(isConst, C, var, initType) ==
  LET varType == var.var.type
      name == var.var.name
      errs == var.errs \o initType.errs
      st1 == addSymbol(C.symtab, name, varType, IF isConst THEN Read ELSE ReadWrite)
  IN  IF initType.abort # "no" THEN Eff(C.symtab, errs, initType.abort, NullType)
      ELSE IF hasSymbol(C.symtab, name) /\ defined(getSymbol(C.symtab, name).type)
      THEN Eff(C.symtab, errs \o reportMultipleDefs("variable or constant", name),
               "no", PtrOf(initType))
      ELSE IF ~defined(varType) THEN Eff(st1, errs, "no", PtrOf(initType))
      ELSE LET chk == initCheck(varType, initType, isConst, C.ub)
           IN  Eff(st1, errs \o chk.errs, chk.abort, PtrOf(initType))

\* lines 1262-1330: redefinition check, binding, initial value check
declCheck(isConst, C, var, initType) ==
  LET varType == var.var.type
      name == var.var.name
      errs == var.errs \o initType.errs
      st1 == addSymbol(C.symtab, name, varType, IF isConst THEN Read ELSE ReadWrite)
  IN  IF initType.abort # "no" THEN Eff(C.symtab, errs, initType.abort, NullType)
      ELSE IF hasSymbolLocal(C.symtab, name) /\ defined(getSymbol(C.symtab, name).type)
      THEN Eff(C.symtab, errs \o reportMultipleDefs("variable or constant", name),
               "no", PtrOf(initType))
      ELSE IF ~defined(varType) THEN Eff(st1, errs, "no", PtrOf(initType))
      ELSE LET chk == initCheck(varType, initType, isConst, C.ub)
           IN  Eff(st1, errs \o chk.errs, chk.abort, PtrOf(initType))

typeCheckVarOrConstDecl(decl, isConst, C) ==
  declCheck(isConst, C, visitIdentDecl(decl.var, C),
            IF decl.initVal.k = "null" THEN Null(<<>>)
            ELSE inferType(decl.initVal, C, <<"initVal">>))

\* the condition diagnostic of While / If (lines 316-322, 338-344)
condCheck(condType) ==
  IF condType.def /\ (Len(condType.v) # 1 \/ ~isBoolean(condType.v[1]))
  THEN reportError("expected a boolean conditional expression") ELSE <<>>

\* lines 351-363: both bounds of a for-loop range are integral
rangeCheck(lowerType, upperType) ==
  IF lowerType.abort # "no" THEN [errs |-> lowerType.errs, abort |-> lowerType.abort]
  ELSE IF upperType.abort # "no"
  THEN [errs |-> lowerType.errs \o upperType.errs, abort |-> upperType.abort]
  ELSE [errs |-> lowerType.errs \o upperType.errs \o
                 (IF lowerType.def /\ (Len(lowerType.v) # 1 \/ ~isInt(lowerType.v[1]))
                  THEN reportError("expected lower bound of for-loop range to be integral")
                  ELSE <<>>) \o
                 (IF upperType.def /\ (Len(upperType.v) # 1 \/ ~isInt(upperType.v[1]))
                  THEN reportError("expected upper bound of for-loop range to be integral")
                  ELSE <<>>),
        abort |-> "no"]

visitRangeDomain(domain, C) ==
  rangeCheck(inferType(domain.lower, C, <<"lower">>),
             inferType(domain.upper, C, <<"upper">>))

\* lines 219-224: a field whose type failed to lower is left out
\* variant of fieldNext that keeps a field whose type failed to lower
fieldNextKeepAll(acc, f) ==
  [fields |-> Append(acc.fields, [name |-> f.var.name, type |-> f.var.type]),
   errs |-> acc.errs \o f.errs]

fieldNext(acc, f) ==
  [fields |-> IF defined(f.var.type)
              THEN Append(acc.fields, [name |-> f.var.name, type |-> f.var.type])
              ELSE acc.fields,
   errs |-> acc.errs \o f.errs]

RECURSIVE fieldLoop(_, _, _)
\* lines 216-225: the fields of an element declaration; acc = [fields, errs]
fieldLoop(fields, C, acc) ==
  IF fields = <<>> THEN acc
  ELSE fieldLoop(Tail(fields), C, fieldNext(acc, visitIdentDecl(Head(fields), C)))

\* lines 258-267, 273-280: one argument or result of a function declaration
argumentNext(acc, v, access, isResult) ==
  IF ~defined(v.var.type)
  THEN [acc EXCEPT !.typeChecked = FALSE, !.errs = @ \o v.errs]
  ELSE [symtab |-> addSymbol(acc.symtab, v.var.name, v.var.type, access),
        arguments |-> IF isResult THEN acc.arguments ELSE Append(acc.arguments, v.var),
        results |-> IF isResult THEN Append(acc.results, v.var) ELSE acc.results,
        typeChecked |-> acc.typeChecked,
        errs |-> acc.errs \o v.errs]

RECURSIVE argumentLoop(_, _, _, _)
\* lines 255-281: the arguments, then the results, of a function declaration;
\* acc = [symtab, arguments, results, typeChecked, errs]
argumentLoop(decls, C, acc, isResult) ==
  IF decls = <<>> THEN acc
  ELSE argumentLoop(Tail(decls), C,
         argumentNext(acc, visitIdentDecl(Head(decls), [C EXCEPT !.symtab = acc.symtab]),
                      IF Head(decls).access = "in" THEN Read ELSE ReadWrite, isResult),
         isResult)


---------------------------------------------------------------------------
(* The walk over a program: one action per declaration or statement visit;  *)
(* visits that contain a body are entered and left by separate actions,     *)
(* the open ones being the frames.                                          *)

IdentDecl(name, type) == [name |-> name, type |-> type]
Argument(name, type, access) == [name |-> name, type |-> type, access |-> access]
NoInit == [k |-> "null"]

PrintStmt(expr) == [k |-> "PrintStmt", expr |-> expr]
AssignStmt(lhs, expr) == [k |-> "AssignStmt", lhs |-> lhs, expr |-> expr]
VarDecl(kind, name, type, initVal) ==
  [k |-> kind, var |-> IdentDecl(name, type), initVal |-> initVal]
WhileStmt(cond) == [k |-> "WhileStmt", cond |-> cond]
IfStmt(cond, hasElse) == [k |-> "IfStmt", cond |-> cond, hasElse |-> hasElse]
ForStmt(loopVar, lower, upper) ==
  [k |-> "ForStmt", loopVar |-> loopVar, domain |-> [lower |-> lower, upper |-> upper]]
FuncDecl(name, args, results) ==
  [k |-> "FuncDecl", name |-> name, args |-> args, results |-> results]
ElementTypeDecl(name, fields) == [k |-> "ElementTypeDecl", name |-> name, fields |-> fields]
ExternDecl(name, type) == [k |-> "ExternDecl", var |-> IdentDecl(name, type)]

FloatTensor(iss) == NDTensorType(ScalarType("float"), iss, FALSE)

PrintStmts ==
  {PrintStmt(e) : e \in {VarExpr("x"), VarExpr("u"), VarExpr("points"),
                         Binary("AddExpr", VarExpr("za"),
                                Binary("MulExpr", VarExpr("zb"), VarExpr("zc"))),
                         Binary("ExpExpr", FloatLiteral, FloatLiteral),
                         Binary("SubExpr", FloatLiteral, VarExpr("zz")),
                         Unary("NotExpr", IntLiteral)}}

AssignStmts ==
  {AssignStmt(<<VarExpr("x")>>, FloatLiteral),
   AssignStmt(<<VarExpr("x")>>, VarExpr("zz")),
   AssignStmt(<<VarExpr("y")>>, VarExpr("x")),
   AssignStmt(<<VarExpr("x"), VarExpr("y")>>, CallExpr("g", <<FloatLiteral>>)),
   AssignStmt(<<VarExpr("y")>>, CallExpr("g", <<FloatLiteral>>)),
   AssignStmt(<<VarExpr("k")>>, IntLiteral),
   AssignStmt(<<FieldReadExpr(VarExpr("points"), "c")>>,
              Binary("MulExpr", VarExpr("App"), FieldReadExpr(VarExpr("points"), "b"))),
   AssignStmt(<<VarExpr("y")>>, MapExpr("f", "u", <<>>)),
   AssignStmt(<<VarExpr("y"), VarExpr("y")>>, CallExpr("g", <<FloatLiteral>>)),
   AssignStmt(<<VarExpr("s")>>, IntLiteral),
   AssignStmt(<<VarExpr("r3")>>, FloatLiteral),
   AssignStmt(<<VarExpr("r3")>>, IntLiteral),
   AssignStmt(<<VarExpr("r3")>>, VarExpr("c3")),
   AssignStmt(<<VarExpr("p")>>, VarExpr("p")),
   AssignStmt(<<VarExpr("y")>>, VarExpr("y")),
   AssignStmt(<<FieldReadExpr(VarExpr("p"), "b")>>, FloatLiteral),
   AssignStmt(<<TensorReadExpr(VarExpr("x"), <<ExprParam(VarExpr("p"))>>)>>, FloatLiteral),
   AssignStmt(<<TensorReadExpr(VarExpr("y"), <<ExprParam(IntLiteral)>>)>>, FloatLiteral)}

DeclStmts ==
  {VarDecl(kd, "x", ty, init) :
     kd \in {"VarDecl", "ConstDecl"},
     ty \in {ScalarType("float"), FloatTensor(<<SetIndexSet("u")>>)},
     init \in {NoInit, FloatLiteral}}
    \cup {VarDecl("VarDecl", "y", FloatTensor(<<RangeIndexSet(3)>>), VarExpr("y")),
          VarDecl("ConstDecl", "y", FloatTensor(<<RangeIndexSet(3), RangeIndexSet(1)>>),
                  NDTensorLiteral(<<VectorLiteral("FloatVectorLiteral", 3, FALSE)>>, FALSE)),
          VarDecl("VarDecl", "y", ElementType("Point"), FloatLiteral),
          VarDecl("ConstDecl", "y", FloatTensor(<<RangeIndexSet(2)>>),
                  NDTensorLiteral(<<VectorLiteral("FloatVectorLiteral", 2, FALSE),
                                    VectorLiteral("FloatVectorLiteral", 2, FALSE)>>, FALSE)),
          VarDecl("VarDecl", "y", FloatTensor(<<RangeIndexSet(1), RangeIndexSet(2)>>),
                  VectorLiteral("FloatVectorLiteral", 2, FALSE)),
          VarDecl("ConstDecl", "y", FloatTensor(<<RangeIndexSet(1), RangeIndexSet(2)>>),
                  VectorLiteral("FloatVectorLiteral", 2, FALSE)),
          VarDecl("VarDecl", "s", ScalarType("int"), NoInit),
          VarDecl("ConstDecl", "s", ScalarType("float"), FloatLiteral),
          VarDecl("VarDecl", "s", ScalarType("float"), VarExpr("s"))}

CondExprs == {VarExpr("t"), VarExpr("i"), VarExpr("zz")}

WhileStmts == {WhileStmt(c) : c \in CondExprs}

IfStmts == {IfStmt(VarExpr("t"), TRUE), IfStmt(VarExpr("i"), FALSE), IfStmt(VarExpr("zz"), TRUE)}

ForStmts == {ForStmt("k", IntLiteral, VarExpr("i")), ForStmt("k", FloatLiteral, VarExpr("zz"))}

ElementTypeDecls ==
  {ElementTypeDecl("Point", <<IdentDecl("b", ScalarType("float")),
                              IdentDecl("c", ScalarType("float"))>>),
   ElementTypeDecl("Point", <<IdentDecl("b", ScalarType("int"))>>),
   ElementTypeDecl("Spring", <<IdentDecl("a", ScalarType("float")),
                               IdentDecl("z", FloatTensor(<<SetIndexSet("zz")>>))>>)}

ExternDecls ==
  {ExternDecl("points", SetType("Point", <<>>)),
   ExternDecl("u", SetType("Nope", <<>>)),
   ExternDecl("springs", SetType("Spring", <<"points", "u">>)),
   ExternDecl("w", FloatTensor(<<SetIndexSet("u")>>))}

FuncDecls ==
  {FuncDecl("main", <<>>, <<>>),
   FuncDecl("f", <<Argument("p", ElementType("Point"), "in")>>,
            <<Argument("x", FloatTensor(<<SetIndexSet("points")>>), "result")>>),
   FuncDecl("f", <<Argument("y", ScalarType("float"), "inout"),
                   Argument("q", ElementType("Nope"), "in")>>, <<>>)}

MainFrame ==
  [kind |-> "func", node |-> FuncDecl("main", <<>>, <<>>), typeChecked |-> TRUE,
   arguments |-> <<>>, results |-> <<>>, condType |-> NullType]

\* a fresh checker on an empty context holding the intrinsics
InitFresh ==
  /\ symtab = <<EmptyScope>>
  /\ elems = [n \in {} |-> Undefined]
  /\ funcs = [n \in {"norm"} |-> FuncNorm]
  /\ frames = <<>>

\* the checker entering proc main after the declarations of the test program
InitMain ==
  /\ symtab = <<EnvScope, EmptyScope>>
  /\ elems = EnvElems
  /\ funcs = EnvFuncs
  /\ frames = <<MainFrame>>

Init ==
  /\ InitFresh \/ InitMain
  /\ errors = <<>>
  /\ aborted = FALSE
  /\ node = NoInit
  /\ retType = NullType
  /\ pc = "walk"
  /\ steps = 0
  /\ checkWritable = NoNode
  /\ skipCheckDeclared = FALSE

Running == pc = "walk" /\ ~aborted

CtxNow(ub) == Ctx(symtab, elems, funcs, checkWritable, skipCheckDeclared, ub)

\* the marks after the visit of a statement: every target of an assignment
\* ends with the reset of lines 408-409
MarksAfter(stmts) ==
  LET reset == resetMarks(checkWritable, skipCheckDeclared)
  IN  IF \E i \in 1..Len(stmts) : stmts[i].k = "AssignStmt" /\ Len(stmts[i].lhs) > 0
      THEN /\ checkWritable' = reset.checkWritable
           /\ skipCheckDeclared' = reset.skipCheckDeclared
      ELSE UNCHANGED <<checkWritable, skipCheckDeclared>>

UBAborts == {"nullderef", "outofbounds"}

\* the effect of a visit under every outcome of the undefined behaviour it meets
Outcomes(F(_)) ==
  LET e0 == F("crash")
  IN  IF e0.abort \in UBAborts THEN {e0, F("mismatch"), F("match")} ELSE {e0}

\* variant of Apply that puts the new diagnostics in front of the list
ApplyPrepend(eff, n) ==
  /\ symtab' = IF eff.abort = "no" THEN eff.symtab ELSE symtab
  /\ errors' = eff.errs \o errors
  /\ aborted' = (eff.abort # "no")
  /\ retType' = eff.type
  /\ node' = n
  /\ steps' = steps + 1

Apply(eff, n) ==
  /\ symtab' = IF eff.abort = "no" THEN eff.symtab ELSE symtab
  /\ errors' = errors \o eff.errs
  /\ aborted' = (eff.abort # "no")
  /\ retType' = eff.type
  /\ node' = n
  /\ steps' = steps + 1

InBody == Running /\ frames # <<>> /\ steps < MaxSteps
AtTop == Running /\ frames = <<>> /\ steps < MaxSteps

Frame(kind, n, condType) ==
  [kind |-> kind, node |-> n, typeChecked |-> TRUE, arguments |-> <<>>,
   results |-> <<>>, condType |-> condType]

Top == frames[Len(frames)]
Pop == SubSeq(frames, 1, Len(frames) - 1)

VisitPrintStmt ==
  /\ InBody
  /\ \E stmt \in PrintStmts :
       \E eff \in Outcomes(LAMBDA ub : visitPrintStmt(stmt, CtxNow(ub))) : Apply(eff, stmt)
  /\ UNCHANGED <<elems, funcs, frames, pc, checkWritable, skipCheckDeclared>>

VisitAssignStmt ==
  /\ InBody
  /\ \E stmt \in AssignStmts :
       \E eff \in Outcomes(LAMBDA ub : visitAssignStmt(stmt, CtxNow(ub))) :
         Apply(eff, stmt) /\ MarksAfter(<<stmt>>)
  /\ UNCHANGED <<elems, funcs, frames, pc>>

VisitVarDecl ==
  /\ InBody
  /\ \E decl \in {d \in DeclStmts : d.k = "VarDecl"} :
       \E eff \in Outcomes(LAMBDA ub : typeCheckVarOrConstDecl(decl, FALSE, CtxNow(ub))) :
         Apply(eff, decl)
  /\ UNCHANGED <<elems, funcs, frames, pc, checkWritable, skipCheckDeclared>>

VisitConstDecl ==
  /\ InBody
  /\ \E decl \in {d \in DeclStmts : d.k = "ConstDecl"} :
       \E eff \in Outcomes(LAMBDA ub : typeCheckVarOrConstDecl(decl, TRUE, CtxNow(ub))) :
         Apply(eff, decl)
  /\ UNCHANGED <<elems, funcs, frames, pc, checkWritable, skipCheckDeclared>>

\* variant of condEnter that checks the condition before the body
condEnterCheckFirst(C, condType) ==
  Eff(scope(C.symtab),
      condType.errs \o (IF condType.def /\ (Len(condType.v) # 1 \/ ~isBoolean(condType.v[1]))
                        THEN reportError("expected a boolean conditional expression")
                        ELSE <<>>),
      condType.abort, PtrOf(condType))

\* visit(WhileStmt) up to the body: infer the condition, enter the scope
condEnter(C, condType) ==
  Eff(scope(C.symtab), condType.errs, condType.abort, PtrOf(condType))

whileEnter(stmt, C) == condEnter(C, inferType(stmt.cond, C, <<"cond">>))

\* visit(WhileStmt) after the body: leave the scope, check the condition
whileExit(frame, st) == Eff(unscope(st), condCheck(frame.condType), "no", frame.condType)

EnterWhileStmt ==
  /\ InBody /\ Len(frames) < MaxDepth
  /\ \E stmt \in WhileStmts :
       \E eff \in Outcomes(LAMBDA ub : whileEnter(stmt, CtxNow(ub))) :
         /\ Apply(eff, stmt)
         /\ frames' = IF eff.abort = "no" THEN Append(frames, Frame("while", stmt, eff.type))
                                          ELSE frames
  /\ UNCHANGED <<elems, funcs, pc, checkWritable, skipCheckDeclared>>

ExitWhileStmt ==
  /\ Running /\ frames # <<>> /\ Top.kind = "while"
  /\ LET eff == whileExit(Top, symtab)
     IN  /\ symtab' = eff.symtab
         /\ errors' = errors \o eff.errs
         /\ retType' = eff.type
  /\ node' = Top.node
  /\ frames' = Pop
  /\ UNCHANGED <<elems, funcs, aborted, pc, steps, checkWritable, skipCheckDeclared>>

\* visit(IfStmt) up to the if body
ifEnter(stmt, C) == condEnter(C, inferType(stmt.cond, C, <<"cond">>))

\* visit(IfStmt) between the if body and the else body (lines 330-333)
ifElse(st) == scope(unscope(st))

\* visit(IfStmt) after the last body
ifExit(frame, st) == Eff(unscope(st), condCheck(frame.condType), "no", frame.condType)

EnterIfStmt ==
  /\ InBody /\ Len(frames) < MaxDepth
  /\ \E stmt \in IfStmts :
       \E eff \in Outcomes(LAMBDA ub : ifEnter(stmt, CtxNow(ub))) :
         /\ Apply(eff, stmt)
         /\ frames' = IF eff.abort = "no" THEN Append(frames, Frame("if", stmt, eff.type))
                                          ELSE frames
  /\ UNCHANGED <<elems, funcs, pc, checkWritable, skipCheckDeclared>>

ElseIfStmt ==
  /\ Running /\ frames # <<>> /\ Top.kind = "if" /\ Top.node.hasElse
  /\ symtab' = ifElse(symtab)
  /\ frames' = Append(Pop, [Top EXCEPT !.kind = "else"])
  /\ UNCHANGED <<elems, funcs, errors, aborted, node, retType, pc, steps, checkWritable, skipCheckDeclared>>

ExitIfStmt ==
  /\ Running /\ frames # <<>>
  /\ \/ Top.kind = "if" /\ ~Top.node.hasElse
     \/ Top.kind = "else"
  /\ LET eff == ifExit(Top, symtab)
     IN  /\ symtab' = eff.symtab
         /\ errors' = errors \o eff.errs
         /\ retType' = eff.type
  /\ node' = Top.node
  /\ frames' = Pop
  /\ UNCHANGED <<elems, funcs, aborted, pc, steps, checkWritable, skipCheckDeclared>>

\* visit(ForStmt) up to the body
forBind(stmt, st, dom) ==
  Eff(addSymbol(st, stmt.loopVar, IrInt, Read), dom.errs, dom.abort, NullType)

forEnter(stmt, C) ==
  forBind(stmt, scope(C.symtab),
          visitRangeDomain(stmt.domain, [C EXCEPT !.symtab = scope(C.symtab)]))

\* variant of forExit that moves the bindings of the loop's scope into the
\* enclosing scope
forExitMerge(st) ==
  LET inner == st[Len(st)]
      outer == st[Len(st) - 1]
  IN  [unscope(st) EXCEPT ![Len(st) - 1] =
         [n \in (DOMAIN outer) \cup (DOMAIN inner) |->
            IF n \in DOMAIN inner THEN inner[n] ELSE outer[n]]]

forExit(st) == unscope(st)

EnterForStmt ==
  /\ InBody /\ Len(frames) < MaxDepth
  /\ \E stmt \in ForStmts :
       \E eff \in Outcomes(LAMBDA ub : forEnter(stmt, CtxNow(ub))) :
         /\ Apply(eff, stmt)
         /\ frames' = IF eff.abort = "no" THEN Append(frames, Frame("for", stmt, NullType))
                                          ELSE frames
  /\ UNCHANGED <<elems, funcs, pc, checkWritable, skipCheckDeclared>>

ExitForStmt ==
  /\ Running /\ frames # <<>> /\ Top.kind = "for"
  /\ symtab' = forExit(symtab)
  /\ node' = Top.node
  /\ frames' = Pop
  /\ UNCHANGED <<elems, funcs, errors, aborted, retType, pc, steps, checkWritable, skipCheckDeclared>>

\* visit(FuncDecl) up to the body: enter the scope, bind arguments and results
funcEnter(decl, C) ==
  argumentLoop(decl.results, C,
    argumentLoop(decl.args, C,
      [symtab |-> scope(C.symtab), arguments |-> <<>>, results |-> <<>>,
       typeChecked |-> TRUE, errs |-> <<>>], FALSE),
    TRUE)

\* variant of funcExit that returns early, before ctx.unscope(), when an
\* argument or result failed to type
funcExitLeaky(frame, st, fs) ==
  LET name == frame.node.name
  IN  IF ~frame.typeChecked THEN [symtab |-> st, funcs |-> fs, errs |-> <<>>]
      ELSE IF containsFunction(fs, name)
      THEN [symtab |-> unscope(st), funcs |-> fs,
            errs |-> reportMultipleDefs("function or procedure", name)]
      ELSE [symtab |-> unscope(st),
            funcs |-> addToRegistry(fs, name,
                        Func(name, frame.arguments, frame.results, "Internal")),
            errs |-> <<>>]

\* variant of funcExit that registers a function of a new name even when an
\* argument or result failed to type
funcExitAlways(frame, st, fs) ==
  LET name == frame.node.name
  IN  IF containsFunction(fs, name)
      THEN [symtab |-> unscope(st), funcs |-> fs,
            errs |-> IF frame.typeChecked
                     THEN reportMultipleDefs("function or procedure", name) ELSE <<>>]
      ELSE [symtab |-> unscope(st),
            funcs |-> addToRegistry(fs, name,
                        Func(name, frame.arguments, frame.results, "Internal")),
            errs |-> <<>>]

\* visit(FuncDecl) after the body: leave the scope, register the function
funcExit(frame, st, fs) ==
  LET name == frame.node.name
  IN  IF ~frame.typeChecked THEN [symtab |-> unscope(st), funcs |-> fs, errs |-> <<>>]
      ELSE IF containsFunction(fs, name)
      THEN [symtab |-> unscope(st), funcs |-> fs,
            errs |-> reportMultipleDefs("function or procedure", name)]
      ELSE [symtab |-> unscope(st),
            funcs |-> addToRegistry(fs, name,
                        Func(name, frame.arguments, frame.results, "Internal")),
            errs |-> <<>>]

FuncFrame(decl, f) ==
  [kind |-> "func", node |-> decl, typeChecked |-> f.typeChecked,
   arguments |-> f.arguments, results |-> f.results, condType |-> NullType]

EnterFuncDecl ==
  /\ AtTop
  /\ \E decl \in FuncDecls :
       \E f \in {funcEnter(decl, CtxNow("crash"))} :
           /\ symtab' = f.symtab
           /\ errors' = errors \o f.errs
           /\ frames' = Append(frames, FuncFrame(decl, f))
           /\ node' = decl
  /\ steps' = steps + 1
  /\ UNCHANGED <<elems, funcs, aborted, retType, pc, checkWritable, skipCheckDeclared>>

ExitFuncDecl ==
  /\ Running /\ frames # <<>> /\ Top.kind = "func"
  /\ LET f == funcExit(Top, symtab, funcs)
     IN  /\ symtab' = f.symtab
         /\ funcs' = f.funcs
         /\ errors' = errors \o f.errs
  /\ node' = Top.node
  /\ frames' = Pop
  /\ UNCHANGED <<elems, aborted, retType, pc, steps, checkWritable, skipCheckDeclared>>

\* lines 227-235: register the element type unless its name is taken
\* variant of elementRegister that replaces the entry of a registered name
elementRegisterOverwrite(decl, C, fl) ==
  [elems |-> addToRegistry(C.elems, decl.name, ElementTypeMake(decl.name, fl.fields)),
   errs |-> IF containsElementType(C.elems, decl.name)
            THEN fl.errs \o reportMultipleDefs("element type", decl.name)
            ELSE fl.errs]

elementRegister(decl, C, fl) ==
  IF containsElementType(C.elems, decl.name)
  THEN [elems |-> C.elems, errs |-> fl.errs \o reportMultipleDefs("element type", decl.name)]
  ELSE [elems |-> addToRegistry(C.elems, decl.name, ElementTypeMake(decl.name, fl.fields)),
        errs |-> fl.errs]

visitElementTypeDecl(decl, C) ==
  elementRegister(decl, C, fieldLoop(decl.fields, C, [fields |-> <<>>, errs |-> <<>>]))

VisitElementTypeDecl ==
  /\ AtTop
  /\ \E decl \in ElementTypeDecls :
       \E e \in {visitElementTypeDecl(decl, CtxNow("crash"))} :
           /\ elems' = e.elems
           /\ errors' = errors \o e.errs
           /\ node' = decl
  /\ steps' = steps + 1
  /\ UNCHANGED <<symtab, funcs, frames, aborted, retType, pc, checkWritable, skipCheckDeclared>>

\* lines 241-247: bind the extern unless its name is taken
externRegister(C, externVar) ==
  IF hasSymbol(C.symtab, externVar.var.name)
  THEN Eff(C.symtab,
           externVar.errs \o reportMultipleDefs("variable or constant", externVar.var.name),
           "no", NullType)
  ELSE Eff(addSymbol(C.symtab, externVar.var.name, externVar.var.type, ReadWrite),
           externVar.errs, "no", NullType)

visitExternDecl(decl, C) == externRegister(C, visitIdentDecl(decl.var, C))

VisitExternDecl ==
  /\ AtTop
  /\ \E decl \in ExternDecls : Apply(visitExternDecl(decl, CtxNow("crash")), decl)
  /\ UNCHANGED <<elems, funcs, frames, pc, checkWritable, skipCheckDeclared>>

\* the checker returns to its caller
Finish ==
  /\ Running /\ frames = <<>>
  /\ pc' = "done"
  /\ UNCHANGED <<symtab, elems, funcs, errors, aborted, frames, node, retType, steps, checkWritable, skipCheckDeclared>>

Next ==
  \/ VisitElementTypeDecl \/ VisitExternDecl \/ EnterFuncDecl \/ ExitFuncDecl
  \/ VisitVarDecl \/ VisitConstDecl \/ VisitPrintStmt \/ VisitAssignStmt
  \/ EnterWhileStmt \/ ExitWhileStmt \/ EnterIfStmt \/ ElseIfStmt \/ ExitIfStmt
  \/ EnterForStmt \/ ExitForStmt \/ Finish

Spec == Init /\ [][Next]_vars


---------------------------------------------------------------------------
(* Re-run specification: the checker walks a program of valid declarations *)
(* from a fresh context, then a new checker walks the same program again.   *)

MaxDecls == 7

Program(decls) == [k |-> "Program", decls |-> decls]
FuncDef(decl, body) == [k |-> "FuncDecl", decl |-> decl, body |-> body]

TupleIndex(n) == ExprParam(TensorReadExpr(VarExpr("p"), <<ExprParam(IntLiteral)>>))

PointsByPoints == FloatTensor(<<SetIndexSet("points"), SetIndexSet("points")>>)

\* the declarations of the test program, with variants of each
ValidDecls ==
  << {ElementTypeDecl("Point", <<IdentDecl("b", ScalarType("float")),
                                 IdentDecl("c", ScalarType("float"))>>),
      ElementTypeDecl("Point", <<IdentDecl("b", ScalarType("float")),
                                 IdentDecl("c", ScalarType("float")),
                                 IdentDecl("id", ScalarType("int"))>>)},
     {ElementTypeDecl("Spring", <<IdentDecl("a", ScalarType("float"))>>),
      ElementTypeDecl("Spring", <<IdentDecl("a", ScalarType("float")),
                                  IdentDecl("l0", ScalarType("float"))>>)},
     {ExternDecl("points", SetType("Point", <<>>))},
     {ExternDecl("springs", SetType("Spring", <<"points", "points">>))},
     {FuncDef(FuncDecl("f", <<Argument("s", ElementType("Spring"), "in"),
                              Argument("p", TupleType("Point", 2), "in")>>,
                       <<Argument("A", PointsByPoints, "result")>>), body) :
        body \in {<<>>,
                  <<AssignStmt(<<TensorReadExpr(VarExpr("A"), <<TupleIndex(0), TupleIndex(0)>>)>>,
                               FieldReadExpr(VarExpr("s"), "a"))>>}},
     {FuncDef(FuncDecl("eye", <<Argument("p", ElementType("Point"), "in")>>,
                       <<Argument("I", PointsByPoints, "result")>>), body) :
        body \in {<<>>,
                  <<AssignStmt(<<TensorReadExpr(VarExpr("I"),
                                   <<ExprParam(VarExpr("p")), ExprParam(VarExpr("p"))>>)>>,
                               FloatLiteral)>>}},
     {FuncDef(FuncDecl("main", <<>>, <<>>), body) :
        body \in {<<AssignStmt(<<VarExpr("b")>>, FieldReadExpr(VarExpr("points"), "b")),
                    AssignStmt(<<VarExpr("A")>>, MapExpr("f", "springs", <<>>)),
                    AssignStmt(<<VarExpr("x")>>,
                               Binary("MulExpr", VarExpr("A"), VarExpr("b"))),
                    AssignStmt(<<FieldReadExpr(VarExpr("points"), "c")>>, VarExpr("x"))>>,
                  <<AssignStmt(<<VarExpr("A")>>, MapExpr("f", "springs", <<>>)),
                    AssignStmt(<<VarExpr("I")>>, MapExpr("eye", "points", <<>>)),
                    VarDecl("VarDecl", "n", ScalarType("int"), IntLiteral),
                    PrintStmt(VarExpr("n"))>>}},
     {ExternDecl("w", FloatTensor(<<SetIndexSet("points")>>))} >>

RECURSIVE DeclPrefixes(_)
\* the sequences of the first m declarations, one variant of each
DeclPrefixes(m) ==
  IF m = 0 THEN {<<>>}
  ELSE {Append(ds, d) : ds \in DeclPrefixes(m - 1), d \in ValidDecls[m]}

ValidPrograms ==
  {Program(ds) : ds \in UNION {DeclPrefixes(m) :
     m \in 0..(IF MaxDecls < Len(ValidDecls) THEN MaxDecls ELSE Len(ValidDecls))}}

\* the visit of one statement of a function body
visitStmt(stmt, C) ==
  CASE stmt.k = "AssignStmt" -> visitAssignStmt(stmt, C)
    [] stmt.k = "PrintStmt" -> visitPrintStmt(stmt, C)
    [] stmt.k = "VarDecl" -> typeCheckVarOrConstDecl(stmt, FALSE, C)
    [] stmt.k = "ConstDecl" -> typeCheckVarOrConstDecl(stmt, TRUE, C)

RECURSIVE bodyLoop(_, _, _)

bodyNext(rest, C, acc, eff) ==
  bodyLoop(rest, C,
           [symtab |-> IF eff.abort = "no" THEN eff.symtab ELSE acc.symtab,
            errs |-> acc.errs \o eff.errs, abort |-> eff.abort])

\* decl->body->accept(this): the statements of the body in order;
\* acc = [symtab, errs, abort]
bodyLoop(stmts, C, acc) ==
  IF stmts = <<>> \/ acc.abort # "no" THEN acc
  ELSE bodyNext(Tail(stmts), C, acc, visitStmt(Head(stmts), [C EXCEPT !.symtab = acc.symtab]))

funcDone(b, x) ==
  [symtab |-> x.symtab, funcs |-> x.funcs, errs |-> b.errs \o x.errs, abort |-> b.abort]

funcBody(fd, C, f, b) == funcDone(b, funcExit(FuncFrame(fd.decl, f), b.symtab, C.funcs))

funcRun(fd, C, f) ==
  funcBody(fd, C, f,
           bodyLoop(fd.body, C, [symtab |-> f.symtab, errs |-> f.errs, abort |-> "no"]))

\* visit(FuncDecl): arguments and results, body, registration
visitFuncDecl(fd, C) == funcRun(fd, C, funcEnter(fd.decl, C))

\* a fresh checker starts on the program `node`
InitRerun ==
  /\ InitFresh
  /\ node \in ValidPrograms
  /\ errors = <<>>
  /\ aborted = FALSE
  /\ retType = NullType
  /\ pc = "run1"
  /\ steps = 0
  /\ checkWritable = NoNode
  /\ skipCheckDeclared = FALSE

NextDecl == node.decls[steps + 1]

AtDecl(kind) ==
  /\ pc \in {"run1", "run2"} /\ ~aborted
  /\ steps < Len(node.decls)
  /\ NextDecl.k = kind

RunElementTypeDecl ==
  /\ AtDecl("ElementTypeDecl")
  /\ \E e \in {visitElementTypeDecl(NextDecl, CtxNow("crash"))} :
       /\ elems' = e.elems
       /\ errors' = errors \o e.errs
  /\ steps' = steps + 1
  /\ UNCHANGED <<symtab, funcs, aborted, frames, node, retType, pc, checkWritable, skipCheckDeclared>>

RunExternDecl ==
  /\ AtDecl("ExternDecl")
  /\ \E e \in {visitExternDecl(NextDecl, CtxNow("crash"))} :
       /\ symtab' = e.symtab
       /\ errors' = errors \o e.errs
  /\ steps' = steps + 1
  /\ UNCHANGED <<elems, funcs, aborted, frames, node, retType, pc, checkWritable, skipCheckDeclared>>

RunFuncDecl ==
  /\ AtDecl("FuncDecl")
  /\ \E ub \in UBOutcomes :
       \E e \in {visitFuncDecl(NextDecl, CtxNow(ub))} :
         /\ symtab' = e.symtab
         /\ funcs' = e.funcs
         /\ errors' = errors \o e.errs
         /\ aborted' = (e.abort # "no")
  /\ MarksAfter(NextDecl.body)
  /\ steps' = steps + 1
  /\ UNCHANGED <<elems, frames, node, retType, pc>>

\* what a run leaves behind: the program context and the diagnostics
RunResult == [symtab |-> symtab, elems |-> elems, funcs |-> funcs, errors |-> errors]

\* variant of Rerun in which the second run works on the context the first
\* run populated
RerunSameContext ==
  /\ pc = "run1" /\ ~aborted /\ steps = Len(node.decls)
  /\ frames' = <<RunResult>>
  /\ pc' = "run2"
  /\ steps' = 0
  /\ UNCHANGED <<symtab, elems, funcs, errors, aborted, node, retType, checkWritable, skipCheckDeclared>>

\* the first run is over; a new checker, with a context of its own, starts on
\* the same program
Rerun ==
  /\ pc = "run1" /\ ~aborted /\ steps = Len(node.decls)
  /\ frames' = <<RunResult>>
  /\ symtab' = <<EmptyScope>>
  /\ elems' = [n \in {} |-> Undefined]
  /\ funcs' = [n \in {"norm"} |-> FuncNorm]
  /\ errors' = <<>>
  /\ pc' = "run2"
  /\ steps' = 0
  /\ checkWritable' = NoNode
  /\ skipCheckDeclared' = FALSE
  /\ UNCHANGED <<aborted, node, retType>>

FinishRerun ==
  /\ pc = "run2" /\ ~aborted /\ steps = Len(node.decls)
  /\ pc' = "done"
  /\ UNCHANGED <<symtab, elems, funcs, errors, aborted, frames, node, retType, steps, checkWritable, skipCheckDeclared>>

NextRerun ==
  \/ RunElementTypeDecl \/ RunExternDecl \/ RunFuncDecl \/ Rerun \/ FinishRerun

SpecRerun == InitRerun /\ [][NextRerun]_vars


---------------------------------------------------------------------------
(* Nested-scope specification: the checker inside proc main of the test     *)
(* program walks statements that open scopes, bind names in them and refer  *)
(* to the names after the scopes are closed.                                *)

MaxScopeSteps == 4

\* var s : int;   n = 1;   print n + k;
ScopeStmts ==
  {VarDecl("VarDecl", "s", ScalarType("int"), NoInit),
   AssignStmt(<<VarExpr("n")>>, IntLiteral),
   PrintStmt(Binary("AddExpr", VarExpr("n"), VarExpr("k")))}

ScopeWhileStmts == {WhileStmt(VarExpr("i")), WhileStmt(VarExpr("zz"))}

ScopeIfStmts ==
  {IfStmt(VarExpr("t"), TRUE), IfStmt(VarExpr("i"), TRUE),
   IfStmt(CallExpr("g", <<FloatLiteral>>), FALSE)}

ScopeForStmts == {ForStmt("k", IntLiteral, VarExpr("i"))}

ScopeFuncDecls == {FuncDecl("h", <<>>, <<>>)}

InitScope ==
  /\ InitMain
  /\ errors = <<>>
  /\ aborted = FALSE
  /\ node = NoInit
  /\ retType = NullType
  /\ pc = "walk"
  /\ steps = 0
  /\ checkWritable = NoNode
  /\ skipCheckDeclared = FALSE

InScope == Running /\ frames # <<>> /\ steps < MaxScopeSteps

\* stmt->accept(this) for a statement without a body
ScopeVisit(kind) ==
  /\ InScope
  /\ \E stmt \in {st \in ScopeStmts : st.k = kind} :
       \E eff \in Outcomes(LAMBDA ub : visitStmt(stmt, CtxNow(ub))) :
         Apply(eff, stmt) /\ MarksAfter(<<stmt>>)
  /\ UNCHANGED <<elems, funcs, frames, pc>>

ScopeVarDecl == ScopeVisit("VarDecl")
ScopeAssignStmt == ScopeVisit("AssignStmt")
ScopePrintStmt == ScopeVisit("PrintStmt")

\* the visit of a statement with a body, up to the body
ScopeEnter(stmts, kind, Enter(_, _)) ==
  /\ InScope /\ Len(frames) < MaxDepth
  /\ \E stmt \in stmts :
       \E eff \in Outcomes(LAMBDA ub : Enter(stmt, CtxNow(ub))) :
         /\ Apply(eff, stmt)
         /\ frames' = IF eff.abort = "no" THEN Append(frames, Frame(kind, stmt, eff.type))
                                          ELSE frames
  /\ UNCHANGED <<elems, funcs, pc, checkWritable, skipCheckDeclared>>

ScopeEnterWhileStmt == ScopeEnter(ScopeWhileStmts, "while", whileEnter)
ScopeEnterIfStmt == ScopeEnter(ScopeIfStmts, "if", ifEnter)
ScopeEnterForStmt == ScopeEnter(ScopeForStmts, "for", forEnter)

\* visit(FuncDecl) of the next function of the program, up to the body
ScopeEnterFuncDecl ==
  /\ Running /\ frames = <<>> /\ steps < MaxScopeSteps
  /\ \E decl \in ScopeFuncDecls :
       \E f \in {funcEnter(decl, CtxNow("crash"))} :
           /\ symtab' = f.symtab
           /\ errors' = errors \o f.errs
           /\ frames' = Append(frames, FuncFrame(decl, f))
           /\ node' = decl
  /\ steps' = steps + 1
  /\ UNCHANGED <<elems, funcs, aborted, retType, pc, checkWritable, skipCheckDeclared>>

NextScope ==
  \/ ScopeVarDecl \/ ScopeAssignStmt \/ ScopePrintStmt
  \/ ScopeEnterWhileStmt \/ ExitWhileStmt
  \/ ScopeEnterIfStmt \/ ElseIfStmt \/ ExitIfStmt
  \/ ScopeEnterForStmt \/ ExitForStmt
  \/ ScopeEnterFuncDecl \/ ExitFuncDecl \/ Finish

SpecScope == InitScope /\ [][NextScope]_vars


---------------------------------------------------------------------------
(* Assignment specification: the visit of an assignment, target by target,  *)
(* with the write mark and the skip-declared flag as the checker keeps      *)
(* them, inside a function with a read-only argument c.                     *)

MaxAssignSteps == 2

\* func h(c : float)
AssignFunc == FuncDecl("h", <<Argument("c", ScalarType("float"), "in")>>, <<>>)

AssignInputs ==
  {AssignStmt(<<VarExpr("x")>>, VarExpr("c")),
   AssignStmt(<<VarExpr("c")>>, FloatLiteral),
   AssignStmt(<<VarExpr("y")>>, VarExpr("zz")),
   AssignStmt(<<VarExpr("x")>>, VarExpr("x")),
   AssignStmt(<<VarExpr("x"), VarExpr("y")>>, CallExpr("g", <<VarExpr("c")>>)),
   AssignStmt(<<VarExpr("c"), VarExpr("x")>>, CallExpr("g", <<FloatLiteral>>)),
   AssignStmt(<<TensorReadExpr(VarExpr("r3"), <<ExprParam(VarExpr("zj"))>>)>>, VarExpr("c")),
   AssignStmt(<<TensorReadExpr(VarExpr("r3"), <<ExprParam(VarExpr("i"))>>), VarExpr("x")>>,
              CallExpr("g", <<FloatLiteral>>)),
   AssignStmt(<<FieldReadExpr(VarExpr("p"), "b")>>, VarExpr("c")),
   AssignStmt(<<FieldReadExpr(VarExpr("c"), "b")>>, FloatLiteral)}

AssignPrints ==
  {PrintStmt(VarExpr("c")), PrintStmt(Binary("AddExpr", VarExpr("x"), VarExpr("y")))}

\* the open visit of an assignment: its value's type and the types of the
\* targets inferred so far (exprType and lhsType of visit(AssignStmt))
AssignFrame(stmt, exprType, lhsType) ==
  [kind |-> "assign", node |-> stmt, exprType |-> exprType, lhsType |-> lhsType]

InitAssign ==
  /\ \E f \in {funcEnter(AssignFunc, Ctx(<<EnvScope>>, EnvElems, EnvFuncs, NoNode, FALSE, "crash"))} :
       /\ symtab = f.symtab
       /\ frames = <<FuncFrame(AssignFunc, f)>>
  /\ elems = EnvElems
  /\ funcs = EnvFuncs
  /\ errors = <<>>
  /\ aborted = FALSE
  /\ node = NoInit
  /\ retType = NullType
  /\ pc = "walk"
  /\ steps = 0
  /\ checkWritable = NoNode
  /\ skipCheckDeclared = FALSE

AtStmt == Running /\ Top.kind = "func" /\ steps < MaxAssignSteps

\* line 389: the type of the value
EnterAssignStmt ==
  /\ AtStmt
  /\ \E stmt \in AssignInputs, ub \in UBOutcomes :
       \E exprType \in {inferType(stmt.expr, CtxNow(ub), <<"expr">>)} :
         /\ errors' = errors \o exprType.errs
         /\ aborted' = (exprType.abort # "no")
         /\ frames' = Append(frames, AssignFrame(stmt, exprType, <<>>))
         /\ node' = stmt
  /\ pc' = "mark"
  /\ steps' = steps + 1
  /\ UNCHANGED <<symtab, elems, funcs, retType, checkWritable, skipCheckDeclared>>

NextTarget == Len(Top.lhsType) + 1
TargetPath == <<"lhs" \o ToString(NextTarget)>>

\* lines 398-399: mark the next target
MarkTarget ==
  /\ ~aborted /\ pc = "mark" /\ NextTarget <= Len(Top.node.lhs)
  /\ LET m == setMarks(Top.node.lhs[NextTarget], TargetPath, checkWritable)
     IN  /\ checkWritable' = m.checkWritable
         /\ skipCheckDeclared' = m.skipCheckDeclared
  /\ pc' = "infer"
  /\ UNCHANGED <<symtab, elems, funcs, errors, aborted, frames, node, retType, steps>>

\* lines 401-406: infer the marked target and record its type
InferTarget ==
  /\ ~aborted /\ pc = "infer"
  /\ \E ub \in UBOutcomes :
       \E acc \in {lhsNext([lhsType |-> Top.lhsType, errs |-> <<>>, abort |-> "no"],
                           inferType(Top.node.lhs[NextTarget], CtxNow(ub), TargetPath))} :
         /\ errors' = errors \o acc.errs
         /\ aborted' = (acc.abort # "no")
         /\ frames' = Append(Pop, [Top EXCEPT !.lhsType = acc.lhsType])
  /\ pc' = "reset"
  /\ UNCHANGED <<symtab, elems, funcs, node, retType, steps, checkWritable, skipCheckDeclared>>

\* lines 408-409: clear the marks
ResetMarks ==
  /\ ~aborted /\ pc = "reset"
  /\ LET m == resetMarks(checkWritable, skipCheckDeclared)
     IN  /\ checkWritable' = m.checkWritable
         /\ skipCheckDeclared' = m.skipCheckDeclared
  /\ pc' = "mark"
  /\ UNCHANGED <<symtab, elems, funcs, errors, aborted, frames, node, retType, steps>>

\* lines 412-452: the checks of count and types, the declaration of targets
ExitAssignStmt ==
  /\ ~aborted /\ pc = "mark" /\ NextTarget > Len(Top.node.lhs)
  /\ \E eff \in {assignFinish(Top.node, CtxNow("crash"), Top.exprType,
                              [lhsType |-> Top.lhsType, errs |-> <<>>, abort |-> "no"])} :
       /\ symtab' = eff.symtab
       /\ errors' = errors \o eff.errs
       /\ retType' = eff.type
  /\ frames' = Pop
  /\ pc' = "walk"
  /\ UNCHANGED <<elems, funcs, aborted, node, steps, checkWritable, skipCheckDeclared>>

\* visit(PrintStmt) of a statement that follows
AssignPrintStmt ==
  /\ AtStmt
  /\ \E stmt \in AssignPrints :
       \E eff \in Outcomes(LAMBDA ub : visitPrintStmt(stmt, CtxNow(ub))) : Apply(eff, stmt)
  /\ UNCHANGED <<elems, funcs, frames, pc, checkWritable, skipCheckDeclared>>

NextAssign ==
  \/ EnterAssignStmt \/ MarkTarget \/ InferTarget \/ ResetMarks \/ ExitAssignStmt
  \/ AssignPrintStmt

SpecAssign == InitAssign /\ [][NextAssign]_vars


---------------------------------------------------------------------------
(* Properties *)

UndeclaredVar == "undeclared variable or constant"

ArithKinds == ElwiseKinds \cup {"MulExpr", "DivExpr"}

\* the product of two variables of the environment whose types are numeric
\* tensors of one component type, of orders m and n
MulOperandOrders(m, n) ==
  /\ node.k = "MulExpr"
  /\ node.lhs.k = "VarExpr" /\ node.lhs.ident \in DOMAIN EnvTypes
  /\ node.rhs.k = "VarExpr" /\ node.rhs.ident \in DOMAIN EnvTypes
  /\ isTensor(EnvTypes[node.lhs.ident]) /\ isTensor(EnvTypes[node.rhs.ident])
  /\ EnvTypes[node.lhs.ident].comp = EnvTypes[node.rhs.ident].comp
  /\ EnvTypes[node.lhs.ident].comp # "bool"
  /\ order(EnvTypes[node.lhs.ident]) = m
  /\ order(EnvTypes[node.rhs.ident]) = n

LeftType == EnvTypes[node.lhs.ident]
RightType == EnvTypes[node.rhs.ident]

Published(t) == retType = [def |-> TRUE, v |-> <<t>>]

\* the subexpressions a node's visit infers
Children(n) ==
  CASE n.k \in ArithKinds \cup BooleanKinds \cup {"ExpExpr"} -> <<n.lhs, n.rhs>>
    [] n.k \in UnaryKinds -> <<n.operand>>
    [] n.k = "EqExpr" -> n.operands
    [] n.k = "CallExpr" -> n.arguments
    [] n.k = "MapExpr" -> n.partialActuals
    [] n.k = "FieldReadExpr" -> <<n.setOrElem>>
    [] n.k = "TensorReadExpr" ->
         <<n.tensor>> \o [i \in 1..Len(n.indices) |->
                            IF n.indices[i].slice THEN IntLiteral ELSE n.indices[i].expr]
    [] OTHER -> <<>>

\* a subexpression whose own visit reports nothing: a literal or a variable
\* bound to a type
Clean(e) ==
  \/ e.k \in {"IntLiteral", "FloatLiteral", "BoolLiteral"}
  \/ e.k = "VarExpr" /\ e.ident \in DOMAIN EnvTypes /\ defined(EnvTypes[e.ident])

CleanChildren(n) == \A i \in 1..Len(Children(n)) : Clean(Children(n)[i])

RECURSIVE reads(_)
\* the variables an expression reads, in source order
reads(e) ==
  CASE e.k = "VarExpr" -> <<e.ident>>
    [] e.k \in ArithKinds \cup BooleanKinds -> reads(e.lhs) \o reads(e.rhs)
    [] e.k \in UnaryKinds -> reads(e.operand)
    [] e.k = "FieldReadExpr" -> reads(e.setOrElem)
    [] e.k = "CallExpr" ->
         concatAll([i \in 1..Len(e.arguments) |->
                      IF e.arguments[i].k = "null" THEN <<>> ELSE reads(e.arguments[i])])
    [] OTHER -> <<>>

\* the targets of an assignment are variables that are new or writable
writableTargets(n, st) ==
  n.k = "AssignStmt" =>
    \A i \in 1..Len(n.lhs) :
      /\ n.lhs[i].k = "VarExpr"
      /\ hasSymbol(st, n.lhs[i].ident) => isWritable(getSymbol(st, n.lhs[i].ident))

\* the variables a statement reads as operands, in source order
stmtReads(n) ==
  CASE n.k \in {"PrintStmt", "AssignStmt"} -> reads(n.expr)
    [] n.k \in {"VarDecl", "ConstDecl"} ->
         IF n.initVal.k = "null" THEN <<>> ELSE reads(n.initVal)
    [] n.k \in {"WhileStmt", "IfStmt"} -> reads(n.cond)
    [] n.k = "ForStmt" -> reads(n.domain.lower) \o reads(n.domain.upper)
    [] OTHER -> <<>>

undeclaredReads(n, st) == SelectSeq(stmtReads(n), LAMBDA v : ~hasSymbol(st, v))

RECURSIVE baseOf(_)
\* the variable a target writes to: the target itself, or the base of a
\* tensor read or field read
baseOf(e) ==
  CASE e.k = "VarExpr" -> e.ident
    [] e.k = "TensorReadExpr" -> baseOf(e.tensor)
    [] e.k = "FieldReadExpr" -> baseOf(e.setOrElem)
    [] OTHER -> ""

\* the targets of an assignment name no undeclared variable in write position
\* other than a variable the assignment itself declares
targetsDeclared(n, st) ==
  n.k = "AssignStmt" =>
    \A i \in 1..Len(n.lhs) :
      \/ n.lhs[i].k = "VarExpr"
      \/ /\ hasSymbol(st, baseOf(n.lhs[i]))
         /\ \A j \in 1..Len(reads(n.lhs[i])) : hasSymbol(st, reads(n.lhs[i])[j])

RECURSIVE failedRead(_, _)
\* an arithmetic expression over literals and undeclared variables, at least
\* one operand of every operation being undeclared
failedRead(e, st) ==
  CASE e.k = "VarExpr" -> ~hasSymbol(st, e.ident)
    [] e.k \in ArithKinds ->
         /\ failedRead(e.lhs, st) \/ failedRead(e.rhs, st)
         /\ failedRead(e.lhs, st) \/ e.lhs.k = "FloatLiteral"
         /\ failedRead(e.rhs, st) \/ e.rhs.k = "FloatLiteral"
    [] OTHER -> FALSE

NewErrors == SubSeq(errors', Len(errors) + 1, Len(errors'))

UndefinedSymbol(n) == hasSymbol(symtab, n) /\ ~defined(getSymbol(symtab, n).type)

\* nodes whose only reference is to the symbol sym, with what else must hold
\* for the rest of the node to be in order
UndefinedRefs ==
  {[n |-> PrintStmt(VarExpr("u")), sym |-> "u", rest |-> TRUE],
   [n |-> PrintStmt(VarExpr("x")), sym |-> "x", rest |-> TRUE],
   [n |-> AssignStmt(<<VarExpr("y")>>, VarExpr("x")), sym |-> "x", rest |-> TRUE],
   [n |-> AssignStmt(<<VarExpr("y")>>, MapExpr("f", "u", <<>>)), sym |-> "u",
    rest |-> containsFunction(funcs, "f")],
   [n |-> VarDecl("VarDecl", "x", FloatTensor(<<SetIndexSet("u")>>), NoInit), sym |-> "u",
    rest |-> ~hasSymbolLocal(symtab, "x")],
   [n |-> ExternDecl("w", FloatTensor(<<SetIndexSet("u")>>)), sym |-> "u",
    rest |-> ~hasSymbol(symtab, "w")]}

\* C1: type checking never aborts: no assertion or exception ends the walk,
\* every failure is a diagnostic.
C1_NoAbortEscapes == ~aborted

\* C2: every scope entered is left exactly once: the symbol stack holds the
\* global scope and one scope per open FuncDecl / WhileStmt / IfStmt / ForStmt,
\* its depth never drops below 1, and it is 1 when checking completes.
C2_ScopeDiscipline ==
  /\ Len(symtab) >= 1
  /\ Len(symtab) = Len(frames) + 1
  /\ pc = "done" => Len(symtab) = 1

\* a walk that completed after reporting diagnostics inside a function
C2_Witness ==
  pc = "done" /\ node.k = "FuncDecl" /\ errors # <<>> /\ Len(symtab) = 1

\* C3: an expression node whose own visit records a diagnostic (its operands
\* being in order) publishes no type.
C3_ErrorRecovery ==
  (pc = "visited" /\ ~aborted /\ node.k \notin TypeKinds /\ CleanChildren(node)
     /\ errors # <<>>)
    => ~retType.def

\* C4: a reference to a symbol registered with an undefined type records no
\* diagnostic and yields an undefined attribute, whether the reference is a
\* variable read, a named index set or a map target.
C4_NoCascade ==
  [][\A r \in UndefinedRefs :
       (steps' = steps + 1 /\ node' = r.n /\ UndefinedSymbol(r.sym) /\ r.rest)
         => (errors' = errors /\ ~retType'.def)]_vars

C6_AppendOnly ==
  [][/\ Len(errors') >= Len(errors)
     /\ SubSeq(errors', 1, Len(errors)) = errors]_vars

\* diagnostics of two visits in the list
C6_Witness == steps = 2 /\ Len(errors) >= 4 /\ errors[1] # errors[4]

\* C7: a tensor type published for an expression or lowered from type syntax
\* is marked a column vector only if its order is 1.
C7_ColumnVectorOrder ==
  pc = "visited" =>
    \A i \in 1..Len(retType.v) :
      (isTensor(retType.v[i]) /\ retType.v[i].col) => order(retType.v[i]) = 1

\* the transpose of a row vector, published as a column vector
C7_Witness ==
  /\ pc = "visited" /\ node.k = "TransposeExpr" /\ retType.def
  /\ isTensor(retType.v[1]) /\ retType.v[1].col /\ order(retType.v[1]) = 1

\* C8: matrix times vector is accepted only if the inner dimensions agree and
\* the vector is a column, giving a column vector over the matrix's first
\* dimension and no diagnostic; otherwise a diagnostic and no type.
C8_MatrixTimesVector ==
  (pc = "visited" /\ MulOperandOrders(2, 1)) =>
    IF LeftType.dims[2] = RightType.dims[1] /\ RightType.col
    THEN Published(TensorType(LeftType.comp, <<LeftType.dims[1]>>, TRUE)) /\ errors = <<>>
    ELSE errors # <<>> /\ ~retType.def

\* C9: vector times vector needs exactly one column operand: column*column
\* and row*row give their one diagnostic and no type, unequal dimensions give
\* no type, column*row gives the order-2 outer product and row*column a scalar.
C9_VectorTimesVector ==
  (pc = "visited" /\ MulOperandOrders(1, 1)) =>
    IF LeftType.col /\ RightType.col
    THEN errors = reportError("cannot multiply two column vectors") /\ ~retType.def
    ELSE IF ~LeftType.col /\ ~RightType.col
    THEN errors = reportError("cannot multiply two row vectors") /\ ~retType.def
    ELSE IF LeftType.dims[1] # RightType.dims[1]
    THEN errors # <<>> /\ ~retType.def
    ELSE IF LeftType.col
    THEN /\ Published(TensorType(LeftType.comp,
                                 <<LeftType.dims[1], RightType.dims[1]>>, FALSE))
         /\ errors = <<>>
    ELSE Published(TensorType(LeftType.comp, <<>>, FALSE)) /\ errors = <<>>

\* a column vector times a row vector, published as an order-2 tensor
C9_Witness ==
  /\ pc = "visited" /\ MulOperandOrders(1, 1) /\ LeftType.col /\ retType.def
  /\ order(retType.v[1]) = 2

\* C10: vector times matrix is accepted only if the vector is a row whose
\* dimension is the matrix's first, giving a row vector over the matrix's
\* second dimension; otherwise a diagnostic and no type.
C10_VectorTimesMatrix ==
  (pc = "visited" /\ MulOperandOrders(1, 2)) =>
    IF LeftType.dims[1] = RightType.dims[1] /\ ~LeftType.col
    THEN Published(TensorType(LeftType.comp, <<RightType.dims[2]>>, FALSE)) /\ errors = <<>>
    ELSE errors # <<>> /\ ~retType.def


\* a map of a declared function over a declared set, with partial actuals
\* that are single values of a defined type
MapInOrder ==
  /\ node.k = "MapExpr"
  /\ node.func \in DOMAIN EnvFuncs
  /\ node.target \in DOMAIN EnvTypes /\ isSet(EnvTypes[node.target])
  /\ CleanChildren(node)

MapFunc == EnvFuncs[node.func]
MapTarget == EnvTypes[node.target]

TypeOfClean(e) ==
  CASE e.k = "IntLiteral" -> IrInt
    [] e.k = "FloatLiteral" -> IrFloat
    [] e.k = "BoolLiteral" -> IrBoolean
    [] e.k = "VarExpr" -> EnvTypes[e.ident]

\* the actuals of section 4.6.2, Map-reduce, step 3
SynthesizedActuals ==
  [i \in 1..Len(node.partialActuals) |-> TypeOfClean(node.partialActuals[i])]
    \o <<MapTarget.elementType>>
    \o (IF Len(MapTarget.endpointSets) > 0
        THEN <<TupleTypeMake(MapTarget.endpointSets[1].type.elementType,
                             Len(MapTarget.endpointSets))>>
        ELSE <<>>)

ArityMismatch == "map operation passes a wrong number of arguments to assembly function"

\* C11: the actuals a map checks against the function's arguments are the
\* partial actuals, the element type of the target, and for an edge set the
\* tuple of its endpoints; a function without the tuple argument mapped over
\* an edge set is an arity mismatch.
C11_SynthesizedActuals ==
  (pc = "visited" /\ MapInOrder) =>
    IF Len(SynthesizedActuals) # Len(MapFunc.arguments)
    THEN errors = reportError(ArityMismatch)
    ELSE errors = concatAll([i \in 1..Len(SynthesizedActuals) |->
                              mapArgCheck(SynthesizedActuals[i], MapFunc.arguments[i])])

\* C12: a map whose checks all pass has the result types of its function; a
\* map with a failing check records a diagnostic and publishes no type.
C12_MapResult ==
  (pc = "visited" /\ node.k = "MapExpr" /\ CleanChildren(node)) =>
    IF errors = <<>>
    THEN /\ MapInOrder
         /\ retType = [def |-> TRUE, v |-> resultTypes(MapFunc)]
    ELSE ~retType.def

\* the registries keep every entry they hold
RegistriesGrow ==
  /\ \A n \in DOMAIN elems : n \in DOMAIN elems' /\ elems'[n] = elems[n]
  /\ \A n \in DOMAIN funcs : n \in DOMAIN funcs' /\ funcs'[n] = funcs[n]

\* the step is the visit of an element type declaration of a registered name
ElementRedeclared ==
  steps' = steps + 1 /\ node'.k = "ElementTypeDecl" /\ node'.name \in DOMAIN elems

\* the step is the end of the visit of a function declaration of a registered name
FuncRedeclared ==
  /\ frames # <<>> /\ frames' = Pop /\ Top.kind = "func"
  /\ Top.node.name \in DOMAIN funcs

LastNewError == NewErrors[Len(NewErrors)]

\* C13 as stated: every declaration of a registered element type or function
\* name reports 'multiple definitions' and the registries only grow.
C13_RedefinitionReported ==
  [][/\ RegistriesGrow
     /\ ElementRedeclared =>
          (NewErrors # <<>> /\
           <<LastNewError>> = reportMultipleDefs("element type", node'.name))
     /\ FuncRedeclared =>
          NewErrors = reportMultipleDefs("function or procedure", Top.node.name)]_vars

\* C13 amended: a registered entry never changes and the registries only
\* grow; a redeclared element type reports 'multiple definitions'; a
\* redeclared function reports it when its arguments and results all
\* type-checked, and reports nothing at its end otherwise.
C13_RegistriesImmutable ==
  [][/\ RegistriesGrow
     /\ ElementRedeclared =>
          (NewErrors # <<>> /\
           <<LastNewError>> = reportMultipleDefs("element type", node'.name))
     /\ FuncRedeclared =>
          NewErrors = IF Top.typeChecked
                      THEN reportMultipleDefs("function or procedure", Top.node.name)
                      ELSE <<>>]_vars

C13_Witness ==
  /\ frames = <<>> /\ node.k = "FuncDecl" /\ node.name = "f"
  /\ errors = reportMultipleDefs("function or procedure", "f")
  /\ funcs["f"] = FuncF

\* the step is the visit of a variable or constant declaration
DeclStep == steps' = steps + 1 /\ node'.k \in {"VarDecl", "ConstDecl"} /\ ~aborted'

DeclName == node'.var.name

MultipleDefs(name) == reportMultipleDefs("variable or constant", name)

\* a declaration of scalar type without initial value, or of type float
\* initialised with a float literal
DeclInOrder ==
  /\ node'.var.type.k = "ScalarType"
  /\ \/ node'.initVal = NoInit
     \/ node'.initVal = FloatLiteral /\ node'.var.type = ScalarType("float")

\* a declaration whose name is bound in an enclosing scope only is accepted
\* and adds a binding in the innermost scope
ShadowingAccepted ==
  (DeclStep /\ ~hasSymbolLocal(symtab, DeclName) /\ hasSymbol(symtab, DeclName)) =>
    /\ \A i \in 1..Len(NewErrors) : <<NewErrors[i]>> # MultipleDefs(DeclName)
    /\ DeclInOrder => NewErrors = <<>>
    /\ hasSymbolLocal(symtab', DeclName)
    /\ unscope(symtab') = unscope(symtab)

\* C14 as stated: a declaration of a name bound in the innermost scope
\* reports 'multiple definitions' and leaves the binding; a declaration of a
\* name bound in an enclosing scope only is accepted and shadows it.
C14_RedeclarationReported ==
  [][/\ (DeclStep /\ hasSymbolLocal(symtab, DeclName)) =>
          (NewErrors # <<>> /\ <<LastNewError>> = MultipleDefs(DeclName) /\ symtab' = symtab)
     /\ ShadowingAccepted]_vars

\* C14 amended: the redeclaration is reported, and the binding kept, when the
\* binding of the innermost scope has a defined type; a binding of undefined
\* type is replaced without a 'multiple definitions' diagnostic.
C14_RedeclarationOrShadowing ==
  [][/\ (DeclStep /\ hasSymbolLocal(symtab, DeclName)) =>
          IF defined(getSymbol(symtab, DeclName).type)
          THEN NewErrors # <<>> /\ <<LastNewError>> = MultipleDefs(DeclName) /\ symtab' = symtab
          ELSE /\ \A i \in 1..Len(NewErrors) : <<NewErrors[i]>> # MultipleDefs(DeclName)
               /\ getSymbol(symtab', DeclName).access =
                    (IF node'.k = "ConstDecl" THEN Read ELSE ReadWrite)
     /\ ShadowingAccepted]_vars

C14_Witness ==
  /\ steps = 2 /\ node.k = "VarDecl" /\ node.var.name = "s"
  /\ Len(symtab) = 2 /\ hasSymbolLocal(symtab, "s")
  /\ getSymbol(symtab, "s").access = Read
  /\ symtab[1]["s"] = Symbol("s", IrFloat, ReadWrite)
  /\ errors = MultipleDefs("s")

\* C15: a declaration whose initial value reads the name being declared is
\* rejected, the name being bound before the initial value is checked.
C15_SelfReferenceRejected ==
  [][(DeclStep /\ node'.initVal.k = "VarExpr" /\ node'.initVal.ident = DeclName) =>
       NewErrors # <<>>]_vars

RECURSIVE dropTrailingUnit(_)
dropTrailingUnit(dims) ==
  IF dims = <<>> THEN dims
  ELSE IF dims[Len(dims)] # RangeIS(1) THEN dims
  ELSE dropTrailingUnit(SubSeq(dims, 1, Len(dims) - 1))

\* a list of outer dimensions without its leading and trailing unit dimensions
stripUnitDims(dims) == dropTrailingUnit(skipUnitDims(dims))

DeclaredType == getIRType(node'.var.type, CtxNow("crash")).type
InitialType == retType'.v[1]

\* the step declares a fresh name of tensor type with a dense literal of
\* another, non-scalar tensor type
SlackCase ==
  /\ steps' = steps + 1 /\ node'.k \in {"VarDecl", "ConstDecl"}
  /\ ~hasSymbolLocal(symtab, DeclName)
  /\ node'.initVal.k \in LiteralKinds
  /\ retType'.def /\ Len(retType'.v) = 1
  /\ isTensor(DeclaredType) /\ isTensor(InitialType) /\ ~isScalar(InitialType)
  /\ ~compareTypes(DeclaredType, InitialType)

SlackAllowed ==
  /\ compareTypes(getBlockType(DeclaredType), getBlockType(InitialType))
  /\ stripUnitDims(getOuterDimensions(DeclaredType)) =
       stripUnitDims(getOuterDimensions(InitialType))

\* C16: a constant whose declared and initial tensor types differ is accepted
\* exactly when their block types are equal and their outer dimensions agree
\* up to leading and trailing unit dimensions; a variable is not accepted.
C16_BlockTypeSlack ==
  [][SlackCase =>
       IF node'.k = "ConstDecl"
       THEN (~aborted' /\ NewErrors = <<>>) <=> SlackAllowed
       ELSE ~aborted' /\ NewErrors # <<>>]_vars

NotWritable(name) == Err("is not writable", name)

AssignStep == steps' = steps + 1 /\ node'.k = "AssignStmt" /\ ~aborted'

\* the bases of the targets of the assignment that are bound without write
\* permission
ReadOnlyBases ==
  {baseOf(node'.lhs[i]) : i \in 1..Len(node'.lhs)} \cap
    {n \in {baseOf(node'.lhs[i]) : i \in 1..Len(node'.lhs)} :
       hasSymbol(symtab, n) /\ ~isWritable(getSymbol(symtab, n))}

\* C17: an assignment reports "'<name>' is not writable" exactly for the
\* targets whose base variable lacks write permission; reads and writes of
\* readable-writable symbols report no permission diagnostic.
C17_AccessPermissions ==
  [][/\ AssignStep =>
          /\ \A n \in ReadOnlyBases :
               \E i \in 1..Len(NewErrors) : NewErrors[i] = NotWritable(n)
          /\ \A i \in 1..Len(NewErrors) :
               NewErrors[i].msg = "is not writable" => NewErrors[i].ident \in ReadOnlyBases
     /\ \A i \in 1..Len(NewErrors) : NewErrors[i].msg # "is not readable"]_vars

\* a write to the read-only argument p of f, after f's arguments were bound
C17_Witness ==
  /\ frames # <<>> /\ Top.kind = "func" /\ Top.node.name = "f"
  /\ node.k = "AssignStmt" /\ baseOf(node.lhs[1]) = "p"
  /\ hasSymbolLocal(symtab, "p") /\ getSymbol(symtab, "p").access = Read
  /\ errors = <<NotWritable("p")>>

\* the type the assignment records for target i
TargetType(i) ==
  LET r == inferType(node'.lhs[i], CtxNow("crash"), <<"target">>)
  IN  IF r.def /\ Len(r.v) = 1 THEN r.v[1] ELSE Undefined

ValueType(i) == retType'.v[i]

\* target i has a defined type that the value may not be assigned to
TargetViolates(i) ==
  /\ defined(TargetType(i))
  /\ TargetType(i) # ValueType(i)
  /\ ~(/\ isTensor(TargetType(i)) /\ isTensor(ValueType(i)) /\ isScalar(ValueType(i))
       /\ TargetType(i).comp = ValueType(i).comp)

CountError(m, n) ==
  Err("cannot assign an expression returning " \o ToString(m) \o " values to "
        \o ToString(n) \o " targets", "")

TypeError == Err("cannot assign a value of this type to a target of that type", "")

Occurrences(e, sq) == Cardinality({i \in 1..Len(sq) : sq[i] = e})

\* C18: an assignment of m values to n targets reports the count diagnostic
\* when n differs from m; when n = m it reports one type diagnostic for every
\* target of defined type whose value has another type, a scalar of the same
\* component type being accepted by a tensor target.
C18_AssignmentChecking ==
  [][(AssignStep /\ retType'.def) =>
       IF Len(node'.lhs) # Len(retType'.v)
       THEN /\ Occurrences(CountError(Len(retType'.v), Len(node'.lhs)), NewErrors) = 1
            /\ Occurrences(TypeError, NewErrors) = 0
       ELSE /\ \A i \in 1..Len(NewErrors) :
                 NewErrors[i].msg \notin {CountError(m, n).msg : m \in 0..3, n \in 0..3}
            /\ Occurrences(TypeError, NewErrors) =
                 Cardinality({i \in 1..Len(node'.lhs) : TargetViolates(i)})]_vars

\* a row vector was assigned a column vector: one type diagnostic
C18_Witness ==
  /\ node = AssignStmt(<<VarExpr("r3")>>, VarExpr("c3"))
  /\ errors = <<TypeError>>

\* the assignment type-checked: the right-hand side has values, as many as
\* there are targets, and no target reported a type diagnostic
AssignChecked ==
  /\ retType'.def /\ Len(node'.lhs) = Len(retType'.v)
  /\ \A i \in 1..Len(node'.lhs) : ~TargetViolates(i)

Undeclared(name) == Err("undeclared variable or constant", name)

\* C19: after an assignment every variable target without a visible binding
\* is bound in the innermost scope, to the type of its value if the
\* assignment type-checked and to the undefined type otherwise, and is not
\* reported as undeclared; a target with a visible binding keeps it.
C19_ImplicitDeclaration ==
  [][AssignStep =>
       \A i \in 1..Len(node'.lhs) :
         node'.lhs[i].k = "VarExpr" =>
           LET name == node'.lhs[i].ident
           IN  IF ~hasSymbol(symtab, name)
               THEN /\ hasSymbolLocal(symtab', name)
                    /\ getSymbol(symtab', name).type =
                         (IF AssignChecked THEN ValueType(i) ELSE Undefined)
                    /\ Occurrences(Undeclared(name), NewErrors) =
                         Cardinality({j \in 1..Len(reads(node'.expr)) :
                                        reads(node'.expr)[j] = name})
               ELSE /\ getSymbol(symtab', name) = getSymbol(symtab, name)
                    /\ hasSymbolLocal(symtab', name) <=> hasSymbolLocal(symtab, name)]_vars

ReadInOrder ==
  /\ node.k = "TensorReadExpr"
  /\ CleanChildren(node)
  /\ isTensor(TypeOfClean(node.tensor))
  /\ Len(node.indices) = order(TypeOfClean(node.tensor))

ReadTensor == TypeOfClean(node.tensor)

\* the type of index i is allowed on axis i by section 4.6.3, Tensor read
IndexAccepted(i) ==
  LET outer == getOuterDimensions(ReadTensor)[i]
      type == TypeOfClean(node.indices[i].expr)
  IN  \/ isInt(type)
      \/ outer.kind = "set" /\ type = outer.set.type.elementType

RejectedIndices == {i \in 1..Len(node.indices) : ~node.indices[i].slice /\ ~IndexAccepted(i)}

\* C21: in a tensor read with the right number of indices one diagnostic is
\* reported for every index that is neither a slice nor an int nor, on an
\* axis over a named set, an element of that set; no other diagnostic is
\* reported.
C21_IndexTyping ==
  (pc = "visited" /\ ReadInOrder) => Len(errors) = Cardinality(RejectedIndices)


\* a read of a tensor variable of the environment, every index a slice or a
\* variable
ReadOfTensor ==
  /\ node.k = "TensorReadExpr"
  /\ Clean(node.tensor)
  /\ isTensor(TypeOfClean(node.tensor))

\* the dimensions of the tensor at the sliced indices, in index order
SlicedDims ==
  LET sliced == SelectSeq([i \in 1..Len(node.indices) |-> i],
                          LAMBDA i : node.indices[i].slice)
  IN  [j \in 1..Len(sliced) |-> ReadTensor.dims[sliced[j]]]

LastIsSlice == node.indices[Len(node.indices)].slice

\* C22: a tensor read with a wrong number of indices reports a diagnostic and
\* publishes no type; otherwise it publishes the tensor's block type if no
\* index is a slice, and else the tensor of the sliced dimensions in index
\* order, a column vector exactly if one dimension is left and the last
\* index is not a slice.
C22_ReadResultShape ==
  (pc = "visited" /\ ReadOfTensor) =>
    IF Len(node.indices) # order(ReadTensor)
    THEN errors # <<>> /\ ~retType.def
    ELSE IF SlicedDims = <<>>
    THEN Published(getBlockType(ReadTensor))
    ELSE Published(TensorType(ReadTensor.comp, SlicedDims,
                              Len(SlicedDims) = 1 /\ ~LastIsSlice))

\* a column of a matrix is published as a column vector
C22_Witness ==
  /\ pc = "visited"
  /\ node = TensorReadExpr(VarExpr("m32"), <<Slice, ExprParam(VarExpr("i"))>>)
  /\ Published(TensorType("float", <<Dim(3)>>, TRUE))


\* the type section 4.6.1, Transpose, gives the transpose of a tensor of
\* order at most 2
Transposed(t) ==
  CASE order(t) = 0 -> t
    [] order(t) = 1 -> TensorType(t.comp, t.dims, ~t.col)
    [] order(t) = 2 -> TensorType(t.comp, <<t.dims[2], t.dims[1]>>, FALSE)

Transposable(t) == isTensor(t) /\ order(t) <= 2

\* C23: the transpose of a tensor of order 0 has the operand's type, of
\* order 1 the operand's type with the column flag toggled, of order 2 the
\* operand's dimensions swapped and no column flag; the transpose of any
\* other single value or of several values reports a diagnostic and
\* publishes no type; the transpose of the transpose of a tensor of order at
\* most 2 has the tensor's type.
C23_Transpose ==
  (pc = "visited" /\ node.k = "TransposeExpr") =>
    /\ Clean(node.operand) =>
         IF Transposable(TypeOfClean(node.operand))
         THEN errors = <<>> /\ Published(Transposed(TypeOfClean(node.operand)))
         ELSE Len(errors) = 1 /\ ~retType.def
    /\ node.operand = CallExpr("g", <<FloatLiteral>>) =>
         Len(errors) = 1 /\ ~retType.def
    /\ (/\ node.operand.k = "TransposeExpr"
        /\ Clean(node.operand.operand)
        /\ Transposable(TypeOfClean(node.operand.operand))) =>
         errors = <<>> /\ Published(TypeOfClean(node.operand.operand))

\* the transpose of the transpose of the 3x2 matrix is a 3x2 matrix
C23_Witness ==
  /\ pc = "visited"
  /\ node = Unary("TransposeExpr", Unary("TransposeExpr", VarExpr("m32")))
  /\ Published(EnvTypes.m32)


\* an index set of the type syntax that lowers in the environment
IndexSetLowers(is) ==
  is.k = "SetIndexSet" => (is.setName \in DOMAIN EnvTypes /\ isSet(EnvTypes[is.setName]))

LoweredIndexSet(is) ==
  CASE is.k = "RangeIndexSet" -> RangeIS(is.range)
    [] is.k = "DynamicIndexSet" -> DynamicIS
    [] is.k = "SetIndexSet" -> SetIS(Var(is.setName, EnvTypes[is.setName]))

\* the lowering of the block type of the tensor type being lowered
BlockLowered == getIRType(node.blockType, Ctx(symtab, elems, funcs, NoNode, FALSE, "crash"))

FailedIndexSets == {i \in 1..Len(node.indexSets) : ~IndexSetLowers(node.indexSets[i])}

\* the dimensions section 4.2, NDTensorType, gives a tensor of blocks
BlockedDims ==
  [i \in 1..Len(node.indexSets) |->
     <<LoweredIndexSet(node.indexSets[i])>>
       \o (IF order(BlockLowered.type) = 0 THEN <<>> ELSE BlockLowered.type.dims[i])]

BlockedMsg == "blocked tensor type must contain same number of dimensions as its blocks"

\* C24: a tensor type with at least one index set lowers, over a block of
\* order 0, to one dimension per index set, and over a block of as many
\* dimensions as there are index sets, to dimensions of the index set
\* followed by the block's; over any other block it reports the blocked
\* tensor diagnostic and publishes no type.  A column-vector marker on a
\* result of order other than 1 reports a diagnostic and publishes no type.
\* When the block or an index set fails to lower no type is published and
\* nothing is reported beyond the diagnostics of the failed lowerings.
C24_NDTensorTypeLowering ==
  (pc = "visited" /\ node.k = "NDTensorType" /\ Len(node.indexSets) >= 1) =>
    IF ~defined(BlockLowered.type) \/ FailedIndexSets # {}
    THEN /\ ~retType.def
         /\ Len(errors) = Len(BlockLowered.errs) + Cardinality(FailedIndexSets)
    ELSE IF order(BlockLowered.type) \notin {0, Len(node.indexSets)}
    THEN ~retType.def /\ errors = reportError(BlockedMsg)
    ELSE IF node.columnVector /\ Len(node.indexSets) # 1
    THEN ~retType.def /\ Len(errors) = 1
    ELSE /\ errors = <<>>
         /\ Published(TensorType(BlockLowered.type.comp, BlockedDims, node.columnVector))

\* a vector over the points of blocks of three floats
C24_Witness ==
  /\ pc = "visited"
  /\ node = NDTensorType(NDTensorType(ScalarType("float"), <<RangeIndexSet(3)>>, FALSE),
                         <<SetIndexSet("points")>>, TRUE)
  /\ Published(EnvTypes.bv)


RECURSIVE LiteralShape(_)
\* the shape of a dense literal, outermost dimension first, taking the shape
\* of a nested literal's children from the first child
LiteralShape(lit) ==
  IF lit.k = "NDTensorLiteral"
  THEN <<Len(lit.elems)>> \o LiteralShape(lit.elems[1])
  ELSE <<lit.len>>

RECURSIVE LiteralKind(_)
\* the scalar kind of the first value of a dense literal
LiteralKind(lit) ==
  CASE lit.k = "NDTensorLiteral" -> LiteralKind(lit.elems[1])
    [] lit.k = "IntVectorLiteral" -> "int"
    [] lit.k = "FloatVectorLiteral" -> "float"

RECURSIVE UniformShape(_)
\* at every level of a dense literal the children have one shape
UniformShape(lit) ==
  lit.k = "NDTensorLiteral" =>
    \A i \in 1..Len(lit.elems) :
      /\ UniformShape(lit.elems[i])
      /\ LiteralShape(lit.elems[i]) = LiteralShape(lit.elems[1])

RECURSIVE UniformKind(_)
\* all values of a dense literal have one scalar kind
UniformKind(lit) ==
  lit.k = "NDTensorLiteral" =>
    \A i \in 1..Len(lit.elems) :
      /\ UniformKind(lit.elems[i])
      /\ LiteralKind(lit.elems[i]) = LiteralKind(lit.elems[1])

\* C25: a nested literal whose children have one shape S and one scalar
\* kind has the tensor type of that kind with dimensions (M, S...); children
\* of differing shape (DimError) or of differing kind (TypeError) give
\* exactly one diagnostic on the literal and no type, and the checker goes
\* on: the exception does not leave the literal's visit.
C25_DenseLiteralShape ==
  (pc = "visited" /\ node.k = "NDTensorLiteral" /\ ~node.transposed) =>
    /\ ~aborted
    /\ IF UniformShape(node) /\ UniformKind(node)
       THEN /\ errors = <<>>
            /\ Published(TensorType(LiteralKind(node),
                           [i \in 1..Len(LiteralShape(node)) |->
                              <<RangeIS(LiteralShape(node)[i])>>], FALSE))
       ELSE /\ ~retType.def
            /\ Len(errors) = 1
            /\ UniformKind(node) => errors = reportError("DimError")
            /\ UniformShape(node) => errors = reportError("TypeError")

\* two rows of one float each make a 2x1 matrix
C25_Witness ==
  /\ pc = "visited"
  /\ node = NDTensorLiteral(<<VectorLiteral("FloatVectorLiteral", 1, FALSE),
                              VectorLiteral("FloatVectorLiteral", 1, FALSE)>>, FALSE)
  /\ Published(TensorType("float", <<Dim(2), Dim(1)>>, FALSE))


\* the type an argument or result declaration lowers to under the bindings st
DeclType(d, st) == getIRType(d.type, Ctx(st, elems, funcs, NoNode, FALSE, "crash")).type

\* the arguments or results whose type lowers, as variables, in order
TypedVars(decls, st) ==
  LET typed == SelectSeq(decls, LAMBDA d : defined(DeclType(d, st)))
  IN  [i \in 1..Len(typed) |-> Var(typed[i].name, DeclType(typed[i], st))]

AllTyped(decl, st) ==
  \A i \in 1..Len(decl.args \o decl.results) :
    defined(DeclType((decl.args \o decl.results)[i], st))

\* the scope section 4.3, FuncDecl, opens for a function's body
FuncScope(decl, st) ==
  LET ds == SelectSeq(decl.args \o decl.results, LAMBDA d : defined(DeclType(d, st)))
  IN  [n \in {ds[i].name : i \in 1..Len(ds)} |->
         LET d == ds[CHOOSE i \in 1..Len(ds) : ds[i].name = n]
         IN  Symbol(n, DeclType(d, st), IF d.access = "in" THEN Read ELSE ReadWrite)]

FuncEnterStep == Len(frames') = Len(frames) + 1 /\ frames'[Len(frames')].kind = "func"

FuncExitStep == Len(frames') = Len(frames) - 1 /\ frames[Len(frames)].kind = "func"

\* C26: entering a function declaration opens one scope binding the typed
\* arguments (Read, ReadWrite when inout) and results and leaves the
\* function registry alone; no visit of the body changes the registry;
\* leaving the declaration closes the scope and then registers the function
\* if all its arguments and results are typed and its name is new, and
\* otherwise leaves the registry alone.
C26_FuncDeclProtocol ==
  [][/\ FuncEnterStep =>
          /\ funcs' = funcs
          /\ symtab' = Append(symtab, FuncScope(node', symtab))
     /\ ~FuncExitStep => funcs' = funcs
     /\ FuncExitStep =>
          LET decl == Top.node
              outer == unscope(symtab)
          IN  /\ symtab' = outer
              /\ funcs' =
                   IF AllTyped(decl, outer) /\ decl.name \notin DOMAIN funcs
                   THEN addToRegistry(funcs, decl.name,
                          Func(decl.name, TypedVars(decl.args, outer),
                               TypedVars(decl.results, outer), "Internal"))
                   ELSE funcs]_vars

\* the body of a function with an untyped argument has been checked, its
\* inout argument in scope, and the function is not registered
C26_Witness ==
  /\ frames # <<>> /\ Top.kind = "func" /\ ~Top.typeChecked
  /\ steps = 2 /\ node.k = "AssignStmt"
  /\ hasSymbolLocal(symtab, "y") /\ getSymbol(symtab, "y").access = ReadWrite
  /\ "f" \notin DOMAIN funcs


ElementStep == steps' = steps + 1 /\ node'.k = "ElementTypeDecl"

\* the fields of the declaration whose type lowers, in declaration order
TypedFields(decl) ==
  LET typed == SelectSeq(decl.fields, LAMBDA d : defined(DeclType(d, symtab)))
  IN  [i \in 1..Len(typed) |-> [name |-> typed[i].name, type |-> DeclType(typed[i], symtab)]]

\* the diagnostics of lowering the field types, in declaration order
FieldErrors(decl) ==
  concatAll([i \in 1..Len(decl.fields) |->
               getIRType(decl.fields[i].type,
                         Ctx(symtab, elems, funcs, NoNode, FALSE, "crash")).errs])

\* C27: an element declaration of a new name registers the element with
\* exactly the fields whose type lowers, in declaration order; one of a
\* registered name leaves the registry as it is; either reports the
\* diagnostics of lowering its field types once each.
C27_ElementFields ==
  [][ElementStep =>
       IF node'.name \in DOMAIN elems
       THEN /\ elems' = elems
            /\ NewErrors = FieldErrors(node') \o reportMultipleDefs("element type", node'.name)
       ELSE /\ elems' = addToRegistry(elems, node'.name,
                          ElementTypeMake(node'.name, TypedFields(node')))
            /\ NewErrors = FieldErrors(node')]_vars

\* Spring is registered with its field a and without the field whose type
\* names an undeclared set
C27_Witness ==
  /\ node.k = "ElementTypeDecl" /\ node.name = "Spring" /\ Len(node.fields) = 2
  /\ "Spring" \in DOMAIN elems
  /\ elems["Spring"] = SpringT
  /\ errors = reportUndeclared("set", "zz")


\* the scopes that enclose the innermost one
Enclosing(st) == SubSeq(st, 1, Len(st) - 1)

ScopeExitStep == Len(frames') = Len(frames) - 1

ScopeEnterStep == Len(frames') = Len(frames) + 1

ElseStep ==
  /\ Len(frames') = Len(frames) /\ frames # <<>>
  /\ Top.kind = "if" /\ frames'[Len(frames')].kind = "else"

PrintStep == steps' = steps + 1 /\ node'.k = "PrintStmt" /\ ~aborted'

\* C28: leaving the body of a function, while, if, else or for removes the
\* bindings of its scope and nothing else, so that a name of an enclosing
\* scope is bound as before the scope was entered; entering a scope and
\* every statement in it leave the bindings of the enclosing scopes as they
\* are; a reference to a name that no open scope binds is reported as
\* undeclared, a reference to a bound name is not.
C28_SymbolLifetime ==
  [][/\ ScopeExitStep => symtab' = Enclosing(symtab)
     /\ ElseStep => symtab' = Append(Enclosing(symtab), EmptyScope)
     /\ ScopeEnterStep => Enclosing(symtab') = symtab
     /\ (frames' = frames /\ ~aborted') =>
          Len(symtab') = Len(symtab) /\ Enclosing(symtab') = Enclosing(symtab)
     /\ PrintStep =>
          NewErrors = [i \in 1..Len(undeclaredReads(node', symtab)) |->
                         Undeclared(undeclaredReads(node', symtab)[i])]]_vars

\* inside the for loop its variable k is bound and n is not; after the loop
\* neither is
C28_Witness ==
  /\ steps = 3 /\ Len(frames) = 1 /\ node.k = "PrintStmt"
  /\ errors = <<Undeclared("n"), Undeclared("n"), Undeclared("k")>>


MarksClear == checkWritable = NoNode /\ skipCheckDeclared = FALSE

\* the visit of the value of an assignment or of the expression of a print
\* statement: nodes that are no part of an assignment target
ReadVisit == pc = "walk" /\ steps' = steps + 1

\* C29: the write mark and the skip-declared flag are set only while a
\* target of an assignment is inferred: they are clear whenever the checker
\* is between statements or between the targets of an assignment.  The
\* value of an assignment and the expression of a print statement are
\* visited with the marks clear: each of their undeclared variables is
\* reported and none of their variables is reported as not writable.
C29_WriteMarkHygiene ==
  [][/\ pc' \in {"walk", "mark"} => MarksClear'
     /\ pc' = "infer" =>
          /\ skipCheckDeclared' = (Top.node.lhs[NextTarget].k = "VarExpr")
          /\ checkWritable' = markCheckWritable(Top.node.lhs[NextTarget], TargetPath)
     /\ ReadVisit =>
          /\ MarksClear
          /\ SelectSeq(NewErrors, LAMBDA e : e.msg = UndeclaredVar) =
               [i \in 1..Len(undeclaredReads(node', symtab)) |->
                  Undeclared(undeclaredReads(node', symtab)[i])]
          /\ \A i \in 1..Len(NewErrors) : NewErrors[i].msg # "is not writable"]_vars

\* after the assignment to the read-only c, the value of the next assignment
\* is visited: its undeclared variable is reported
C29_Witness ==
  /\ steps = 2 /\ pc = "mark" /\ MarksClear
  /\ node = AssignStmt(<<VarExpr("y")>>, VarExpr("zz"))
  /\ errors = <<Err("is not writable", "c"), Undeclared("zz")>>


ExpectedBoolean == "expected a boolean conditional expression"

\* the condition has a type under the bindings st
CondDefined(c, st) ==
  \/ c.k = "CallExpr"
  \/ c.k = "VarExpr" /\ hasSymbol(st, c.ident) /\ defined(getSymbol(st, c.ident).type)

\* the condition is a single boolean under the bindings st
CondBoolean(c, st) ==
  c.k = "VarExpr" /\ CondDefined(c, st) /\ isBoolean(getSymbol(st, c.ident).type)

CondEnterStep == ScopeEnterStep /\ node'.k \in {"WhileStmt", "IfStmt"}

CondExitStep == ScopeExitStep /\ Top.kind \in {"while", "if", "else"}

\* C30: the visit of a while or if statement infers the condition, then
\* opens a scope for the body without a diagnostic about the condition's
\* type; the else body gets a scope of its own; when the last body is left,
\* and only then, 'expected a boolean conditional expression' is appended
\* once if the condition has a type other than a single boolean, and
\* nothing is appended if it is boolean or has no type.
C30_ConditionDiagnosticLast ==
  [][/\ CondEnterStep =>
          /\ symtab' = Append(symtab, EmptyScope)
          /\ NewErrors = [i \in 1..Len(undeclaredReads(node', symtab)) |->
                            Undeclared(undeclaredReads(node', symtab)[i])]
     /\ ElseStep => errors' = errors
     /\ (~CondExitStep /\ ~aborted') =>
          \A i \in 1..Len(NewErrors) : NewErrors[i].msg # ExpectedBoolean
     /\ CondExitStep =>
          errors' = errors \o
            (IF /\ CondDefined(Top.node.cond, Enclosing(symtab))
                /\ ~CondBoolean(Top.node.cond, Enclosing(symtab))
             THEN reportError(ExpectedBoolean) ELSE <<>>)]_vars

\* both bodies of an if statement with an int condition were checked, and
\* the diagnostic about the condition follows theirs
C30_Witness ==
  /\ steps = 3 /\ Len(frames) = 1 /\ node = IfStmt(VarExpr("i"), TRUE)
  /\ errors = <<Undeclared("n"), Undeclared("k"), Undeclared("n"), Undeclared("k"),
                Err(ExpectedBoolean, "")>>


=============================================================================
